---- MODULE Spec2Model ----
(***************************************************************************)
(* A model of jockey's query core (src/src/jockey/core.py) and of the      *)
(* filter-expression parser (src/src/jockey/filters.py).                   *)
(*                                                                         *)
(* Python strings are sequences of one-character strings, so that          *)
(* equality, substring tests and str.split are computed, not assumed.      *)
(* A Python dict (insertion ordered) is a sequence of <<key, value>>       *)
(* pairs; a JSON record with optional attributes is a function whose       *)
(* domain is the set of attributes that are present.                       *)
(***************************************************************************)
EXTENDS Integers, Sequences, FiniteSets, TLC

VARIABLES status, filters, batch, expression, unit, args, pc, ret, cache, now

vars == <<status, filters, batch, expression, unit, args, pc, ret, cache, now>>

(***************************************************************************)
(* Bounds of the model.                                                    *)
(***************************************************************************)
MaxUnits == 2
MaxFilters == 2
MaxBatch == 3
MaxExprLen == 4
MaxContainers == 2

(***************************************************************************)
(* Strings.                                                                *)
(***************************************************************************)
None == <<"<None>">>

NoErr == "ok"

\* The value of `args` where the call has no argument besides the other variables
NoArgs == <<>>

Min(S) == CHOOSE x \in S : \A y \in S : x <= y

RECURSIVE Concat(_)
Concat(ss) == IF ss = <<>> THEN <<>> ELSE Head(ss) \o Concat(Tail(ss))

\* Python `c in v` for two strings
str_contains(c, v) ==
    \E i \in 0..(Len(v) - Len(c)) : SubSeq(v, i + 1, i + Len(c)) = c

\* Python v.split(sep) for a non-empty separator
RECURSIVE split(_, _)
split(v, sep) ==
    LET n == Len(sep)
        at == {i \in 1..(Len(v) - n + 1) : SubSeq(v, i, i + n - 1) = sep}
    IN  IF at = {} THEN <<v>>
        ELSE LET i == Min(at)
             IN  <<SubSeq(v, 1, i - 1)>> \o split(SubSeq(v, i + n, Len(v)), sep)

UpperCase ==
    << "A", "B", "C", "D", "E", "F", "G", "H", "I", "J", "K", "L", "M",
       "N", "O", "P", "Q", "R", "S", "T", "U", "V", "W", "X", "Y", "Z" >>

LowerCase ==
    << "a", "b", "c", "d", "e", "f", "g", "h", "i", "j", "k", "l", "m",
       "n", "o", "p", "q", "r", "s", "t", "u", "v", "w", "x", "y", "z" >>

\* str.lower() (ASCII letters)
lower(v) ==
    [i \in 1..Len(v) |->
        IF \E k \in 1..Len(UpperCase) : UpperCase[k] = v[i]
        THEN LowerCase[CHOOSE k \in 1..Len(UpperCase) : UpperCase[k] = v[i]]
        ELSE v[i]]

\* Python v.split() (runs of whitespace separate the tokens)
RECURSIVE split_ws(_)
split_ws(v) ==
    IF v = <<>> THEN <<>>
    ELSE IF Head(v) = " " THEN split_ws(Tail(v))
    ELSE LET sp == {i \in 1..Len(v) : v[i] = " "}
         IN  IF sp = {} THEN <<v>>
             ELSE <<SubSeq(v, 1, Min(sp) - 1)>> \o split_ws(SubSeq(v, Min(sp), Len(v)))

(***************************************************************************)
(* Dicts.                                                                  *)
(***************************************************************************)
Keys(d) == [i \in 1..Len(d) |-> d[i][1]]

HasKey(d, k) == \E i \in 1..Len(d) : d[i][1] = k

Get(d, k) == d[Min({i \in 1..Len(d) : d[i][1] = k})][2]

EmptyRec == [x \in {} |-> x]

\* An optional attribute: the set is empty (absent) or holds the value.
Absent == {}

Some(value) == {value}

Attr(name, opt) == IF opt = {} THEN EmptyRec ELSE name :> (CHOOSE value \in opt : TRUE)

Has(rec, name) == name \in DOMAIN rec

(***************************************************************************)
(* Names used in the status documents.                                     *)
(***************************************************************************)
Digit(i) == <<"0", "1", "2", "3", "4">>[i + 1]

P_APP == <<"p">>
S_APP == <<"s">>
Q_APP == <<"q">>

CHARM_P == <<"c", "p">>
CHARM_S == <<"c", "s">>

UnitName(app, i) == app \o <<"/", Digit(i)>>

LXD == <<"l", "x", "d">>

M0 == <<"0">>
M1 == <<"1">>

ContainerId(parent, i) == parent \o <<"/">> \o LXD \o <<"/", Digit(i)>>

C00 == ContainerId(M0, 0)

AZ_KEY == <<"a", "v", "a", "i", "l", "a", "b", "i", "l", "i", "t", "y", "-", "z", "o", "n", "e">>

Z1 == <<"z", "1">>
Z2 == <<"z", "2">>

HW_NOAZ == <<"c", "=", "2">>

HW(zone) == HW_NOAZ \o <<" ">> \o AZ_KEY \o <<"=">> \o zone

HW_BAD == <<"c", " ">> \o AZ_KEY \o <<"=">> \o Z1

IP10 == <<"1", "0">>
IP11 == <<"1", "1">>
IP12 == <<"1", "2">>

HostName(machine) == <<"h">> \o machine

(***************************************************************************)
(* Status documents (JujuStatus): applications and machines.               *)
(***************************************************************************)
\* A machine or container record; every attribute is optional.
MachineRecord(hostname, ips, hardware, containers) ==
    Attr("hostname", hostname) @@ Attr("ip-addresses", ips)
    @@ Attr("hardware", hardware) @@ Attr("containers", containers)

\* The containers map of a machine with n containers ("<parent>/lxd/<i>").
Containers(parent, n) ==
    [i \in 1..n |-> <<ContainerId(parent, i - 1),
                      MachineRecord(Some(HostName(ContainerId(parent, i - 1))),
                                    Some(<<IP12>>), Absent, Absent)>>]

\* A principal unit record: its machine and, optionally, its subordinates.
UnitRecord(machine, subordinates) ==
    Attr("machine", machine) @@ Attr("subordinates", subordinates)

ApplicationRecord(charm, units, subordinate_to) ==
    Attr("charm", charm) @@ Attr("units", units) @@ Attr("subordinate-to", subordinate_to)

JujuStatus(applications, machines) ==
    [applications |-> applications, machines |-> machines]

\* Machines "0" (with container "0/lxd/0") and "1", all attributes present.
DefaultMachines ==
    << <<M0, MachineRecord(Some(HostName(M0)), Some(<<IP10, IP11>>), Some(HW(Z1)),
                           Some(Containers(M0, 1)))>>,
       <<M1, MachineRecord(Some(HostName(M1)), Some(<<IP12>>), Some(HW(Z2)), Absent)>> >>

SubordinatesKinds == {"absent", "empty", "own"}

\* The subordinates attribute of principal unit i
SubordinatesOf(kind, i) ==
    CASE kind = "absent" -> Absent
      [] kind = "empty" -> Some(<<>>)
      [] kind = "own" -> Some(<< <<UnitName(S_APP, i), EmptyRec>> >>)

\* The units map of application p: n units, each with a machine and subordinates
PrincipalUnits(n, mach, subs) ==
    [i \in 1..n |-> <<UnitName(P_APP, i - 1),
                      UnitRecord(Some(mach[i]), SubordinatesOf(subs[i], i - 1))>>]

\* Applications p (principal), s (subordinate) and, optionally, q (principal):
\*   n = 0 leaves p without a units map; sunits gives s a units map of its own;
\*   qkind: q absent, q without units, q with one unit that has no subordinates.
Applications(n, mach, subs, subto, qkind, sunits, pfirst) ==
    LET p == <<P_APP, ApplicationRecord(Some(CHARM_P),
                        IF n = 0 THEN Absent ELSE Some(PrincipalUnits(n, mach, subs)),
                        Absent)>>
        s == <<S_APP, ApplicationRecord(Some(CHARM_S),
                        IF sunits THEN Some(<< <<UnitName(S_APP, 0), EmptyRec>> >>) ELSE Absent,
                        Some(subto))>>
        q == <<Q_APP, ApplicationRecord(Some(CHARM_P),
                        IF qkind = "units"
                        THEN Some(<< <<UnitName(Q_APP, 0), UnitRecord(Some(M1), Absent)>> >>)
                        ELSE Absent,
                        Absent)>>
        qs == IF qkind = "absent" THEN <<>> ELSE <<q>>
    IN  IF pfirst THEN <<p, s>> \o qs ELSE <<s>> \o qs \o <<p>>

MachineIds == {M0, M1, C00}

SubordinateTo == {<<P_APP>>, <<Q_APP, P_APP>>, <<Q_APP>>}

QKinds == {"absent", "nounits", "units"}

\* Status documents that vary the applications
ApplicationStatuses ==
    { JujuStatus(Applications(n, mach, subs, subto, qkind, sunits, pfirst), DefaultMachines) :
        <<n, mach, subs, subto, qkind, sunits, pfirst>> \in
            UNION { {n} \X [1..n -> MachineIds] \X [1..n -> SubordinatesKinds]
                        \X SubordinateTo \X QKinds \X BOOLEAN \X BOOLEAN
                    : n \in 0..MaxUnits } }

DefaultApplications ==
    Applications(2, <<M0, M1>>, <<"own", "absent">>, <<P_APP>>, "nounits", FALSE, TRUE)

\* A machines map: "0" with c0 containers and, unless c1 = -2, "1" with c1
\* containers; -1 leaves the containers attribute out.
Machines(c0, c1) ==
    LET cs(parent, c) == IF c < 0 THEN Absent ELSE Some(Containers(parent, c))
        m0 == <<M0, MachineRecord(Some(HostName(M0)), Some(<<IP10, IP11>>), Some(HW(Z1)), cs(M0, c0))>>
        m1 == <<M1, MachineRecord(Some(HostName(M1)), Some(<<IP12>>), Some(HW(Z2)), cs(M1, c1))>>
    IN  IF c1 = -2 THEN <<m0>> ELSE <<m0, m1>>

\* Status documents that vary the machines
MachineStatuses ==
    { JujuStatus(DefaultApplications, Machines(c0, c1)) :
        <<c0, c1>> \in ((-1)..MaxContainers) \X ((-2)..MaxContainers) }

(***************************************************************************)
(* core.py: the entity graph resolver.                                     *)
(* A function that can raise returns [err, val]; err = NoErr on a normal   *)
(* return and the name of the exception otherwise.                         *)
(***************************************************************************)
Return(val) == [err |-> NoErr, val |-> val]

Raise(exc) == [err |-> exc, val |-> None]

\* The exception of core.py:577 (NoPrincipalFound in the specification)
NoPrincipalFound == "Exception: No principal unit detected"

is_app_principal(st, app_name) ==
    ~Has(Get(st.applications, app_name), "subordinate-to")

get_applications(st) == Keys(st.applications)

\* get_units without the skip of subordinate applications (core.py:369-370)
get_units_no_skip(st) ==
    LET unit_and_subordinates(item) ==
            <<item[1]>> \o (IF ~Has(item[2], "subordinates") THEN <<>>
                            ELSE Keys(item[2].subordinates))
        of_application(app) ==
            IF ~Has(Get(st.applications, app), "units") THEN <<>>
            ELSE LET units == Get(st.applications, app).units
                 IN  Concat([i \in 1..Len(units) |-> unit_and_subordinates(units[i])])
        apps == get_applications(st)
    IN  Concat([i \in 1..Len(apps) |-> of_application(apps[i])])

get_units(st) ==
    LET unit_and_subordinates(item) ==
            <<item[1]>> \o (IF ~Has(item[2], "subordinates") THEN <<>>
                            ELSE Keys(item[2].subordinates))
        of_application(app) ==
            IF ~is_app_principal(st, app) THEN <<>>
            ELSE IF ~Has(Get(st.applications, app), "units") THEN <<>>
            ELSE LET units == Get(st.applications, app).units
                 IN  Concat([i \in 1..Len(units) |-> unit_and_subordinates(units[i])])
        apps == get_applications(st)
    IN  Concat([i \in 1..Len(apps) |-> of_application(apps[i])])

\* get_machines that yields the containers of a machine before the machine
get_machines_containers_first(st) ==
    LET machine_and_containers(item) ==
            (IF ~Has(item[2], "containers") THEN <<>> ELSE Keys(item[2].containers))
            \o <<item[1]>>
    IN  Concat([i \in 1..Len(st.machines) |-> machine_and_containers(st.machines[i])])

get_machines(st) ==
    LET machine_and_containers(item) ==
            <<item[1]>> \o (IF ~Has(item[2], "containers") THEN <<>>
                            ELSE Keys(item[2].containers))
    IN  Concat([i \in 1..Len(st.machines) |-> machine_and_containers(st.machines[i])])

application_to_charm(st, app_name) ==
    IF HasKey(st.applications, app_name) /\ Has(Get(st.applications, app_name), "charm")
    THEN Get(st.applications, app_name).charm
    ELSE None

unit_to_application(st, unit_name) ==
    LET app_name == split(unit_name, <<"/">>)[1]
    IN  IF HasKey(st.applications, app_name) THEN app_name ELSE None

\* Python truthiness of an Optional[str]
Truthy(v) == v # None /\ v # <<>>

RECURSIVE principal_unit_in(_, _, _)
\* core.py:573-575, the loop over the units of one principal application
principal_unit_in(units, unit_name, j) ==
    IF j > Len(units) THEN Raise("not found")
    ELSE IF ~Has(units[j][2], "subordinates") THEN Raise("KeyError")
    ELSE IF HasKey(units[j][2].subordinates, unit_name) THEN Return(units[j][1])
    ELSE principal_unit_in(units, unit_name, j + 1)

RECURSIVE principal_unit_among(_, _, _, _)
\* core.py:568-577, the loop over the applications of `subordinate-to`
principal_unit_among(st, p_apps, unit_name, i) ==
    IF i > Len(p_apps) THEN Raise(NoPrincipalFound)
    ELSE IF ~HasKey(st.applications, p_apps[i]) THEN Raise("KeyError")
    ELSE IF ~is_app_principal(st, p_apps[i])
         THEN principal_unit_among(st, p_apps, unit_name, i + 1)
    ELSE IF ~Has(Get(st.applications, p_apps[i]), "units") THEN Raise("KeyError")
    ELSE LET found == principal_unit_in(Get(st.applications, p_apps[i]).units, unit_name, 1)
         IN  IF found.err = "not found"
             THEN principal_unit_among(st, p_apps, unit_name, i + 1)
             ELSE found

subordinate_unit_to_principal_unit(st, unit_name) ==
    LET principal_of(app) ==
            IF ~Truthy(app) THEN Raise("AssertionError")
            ELSE IF is_app_principal(st, app) THEN Return(unit_name)
            ELSE principal_unit_among(st, Get(st.applications, app)["subordinate-to"],
                                      unit_name, 1)
    IN  principal_of(unit_to_application(st, unit_name))

\* status["applications"][app]["units"][unit_name]["machine"]
unit_attribute_machine(st, app, unit_name) ==
    IF ~HasKey(st.applications, app) THEN Raise("KeyError")
    ELSE IF ~Has(Get(st.applications, app), "units") THEN Raise("KeyError")
    ELSE IF ~HasKey(Get(st.applications, app).units, unit_name) THEN Raise("KeyError")
    ELSE IF ~Has(Get(Get(st.applications, app).units, unit_name), "machine")
         THEN Raise("KeyError")
    ELSE Return(Get(Get(st.applications, app).units, unit_name).machine)

unit_to_machine(st, unit_name) ==
    LET machine_of(principal) ==
            IF principal.err # NoErr THEN principal
            ELSE unit_attribute_machine(st, unit_to_application(st, principal.val),
                                        principal.val)
    IN  machine_of(subordinate_unit_to_principal_unit(st, unit_name))

(***************************************************************************)
(* The entity graph resolver as a state machine: a status document is      *)
(* loaded, then one resolver function is called on it.                     *)
(***************************************************************************)
Range(seq) == {seq[i] : i \in 1..Len(seq)}

EmptyStatus == JujuStatus(<<>>, <<>>)

\* Every unit name of the document: the enumerated ones and the keys of the
\* units map of a subordinate application
UnitNames(st) ==
    Range(get_units(st))
    \cup UNION { Range(Keys(st.applications[i][2].units)) :
                    i \in {j \in 1..Len(st.applications) : Has(st.applications[j][2], "units")} }

InitGraph ==
    /\ status \in ApplicationStatuses \cup MachineStatuses
    /\ filters = <<>>
    /\ batch = <<>>
    /\ expression = <<>>
    /\ unit = None
    /\ args = NoArgs
    /\ pc = "start"
    /\ ret = <<>>
    /\ cache = None
    /\ now = 0

GetUnits ==
    /\ pc = "start"
    /\ pc' = "get_units"
    /\ ret' = get_units(status)
    /\ UNCHANGED <<status, filters, batch, expression, unit, args, cache, now>>

GetMachines ==
    /\ pc = "start"
    /\ pc' = "get_machines"
    /\ ret' = get_machines(status)
    /\ UNCHANGED <<status, filters, batch, expression, unit, args, cache, now>>

SubordinateUnitToPrincipalUnit ==
    /\ pc = "start"
    /\ \E u \in UnitNames(status) :
        /\ unit' = u
        /\ ret' = subordinate_unit_to_principal_unit(status, u)
    /\ pc' = "subordinate_unit_to_principal_unit"
    /\ UNCHANGED <<status, filters, batch, expression, args, cache, now>>

UnitToMachine ==
    /\ pc = "start"
    /\ \E u \in UnitNames(status) :
        /\ unit' = u
        /\ ret' = unit_to_machine(status, u)
    /\ pc' = "unit_to_machine"
    /\ UNCHANGED <<status, filters, batch, expression, args, cache, now>>

NextGraph ==
    \/ GetUnits
    \/ GetMachines
    \/ SubordinateUnitToPrincipalUnit
    \/ UnitToMachine

SpecGraph == InitGraph /\ [][NextGraph]_vars

(***************************************************************************)
(* Properties of the entity graph resolver.                                *)
(***************************************************************************)
RECURSIVE SumOver(_, _)
SumOver(f, S) ==
    IF S = {} THEN 0
    ELSE LET x == CHOOSE y \in S : TRUE IN f[x] + SumOver(f, S \ {x})

Count(seq, x) == Cardinality({i \in 1..Len(seq) : seq[i] = x})

Positions(seq, x) == {i \in 1..Len(seq) : seq[i] = x}

\* <<i, j>>: unit j of application i, for the principal applications with units
PrincipalEntries(st) ==
    UNION { IF ~Has(st.applications[i][2], "subordinate-to") /\ Has(st.applications[i][2], "units")
            THEN {<<i, j>> : j \in 1..Len(st.applications[i][2].units)}
            ELSE {}
            : i \in 1..Len(st.applications) }

EntryUnit(st, e) == st.applications[e[1]][2].units[e[2]]

EntrySubordinates(st, e) ==
    IF Has(EntryUnit(st, e)[2], "subordinates") THEN EntryUnit(st, e)[2].subordinates ELSE <<>>

\* Number of names enumerated before the block of entry e
EntryOffset(st, e) ==
    LET before == {d \in PrincipalEntries(st) : d[1] < e[1] \/ (d[1] = e[1] /\ d[2] < e[2])}
        size == [d \in PrincipalEntries(st) |-> 1 + Len(EntrySubordinates(st, d))]
    IN  SumOver(size, before)

\* C7: get_units yields exactly the units of the principal applications that
\* have a units map, in document order, each principal unit immediately
\* followed by the names of its subordinates map; subordinate applications
\* and applications without units contribute nothing.
C7_GetUnitsEnumeration ==
    pc = "get_units" =>
        /\ Len(ret) = SumOver([d \in PrincipalEntries(status) |->
                                 1 + Len(EntrySubordinates(status, d))],
                              PrincipalEntries(status))
        /\ \A e \in PrincipalEntries(status) :
            /\ ret[EntryOffset(status, e) + 1] = EntryUnit(status, e)[1]
            /\ \A k \in 1..Len(EntrySubordinates(status, e)) :
                ret[EntryOffset(status, e) + 1 + k] = EntrySubordinates(status, e)[k][1]

C7_Witness ==
    /\ pc = "get_units"
    /\ \E i \in 1..Len(status.applications) :
        Has(status.applications[i][2], "subordinate-to") /\ Has(status.applications[i][2], "units")
    /\ \E i \in 1..Len(status.applications) :
        ~Has(status.applications[i][2], "subordinate-to") /\ ~Has(status.applications[i][2], "units")
    /\ \E e \in PrincipalEntries(status) : Len(EntrySubordinates(status, e)) > 0
    /\ \E e \in PrincipalEntries(status) : ~Has(EntryUnit(status, e)[2], "subordinates")
    /\ Len(ret) = 3

\* C8: get_machines yields every top-level machine id once and every
\* container id of its containers map once, the machine before its containers.
C8_GetMachinesEnumeration ==
    pc = "get_machines" =>
        /\ Len(ret) = SumOver([i \in 1..Len(status.machines) |->
                                 1 + (IF Has(status.machines[i][2], "containers")
                                      THEN Len(status.machines[i][2].containers) ELSE 0)],
                              1..Len(status.machines))
        /\ \A i \in 1..Len(status.machines) :
            /\ Count(ret, status.machines[i][1]) = 1
            /\ Has(status.machines[i][2], "containers") =>
                \A k \in 1..Len(status.machines[i][2].containers) :
                    /\ Count(ret, status.machines[i][2].containers[k][1]) = 1
                    /\ \A a \in Positions(ret, status.machines[i][1]) :
                        \A b \in Positions(ret, status.machines[i][2].containers[k][1]) : a < b

C8_Witness ==
    /\ pc = "get_machines"
    /\ Len(status.machines) = 2
    /\ \A i \in 1..2 : Has(status.machines[i][2], "containers")
                        /\ Len(status.machines[i][2].containers) = 2
    /\ Len(ret) = 6

\* The entries under which get_units enumerates the name u
EnumeratedUnder(st, u) ==
    {e \in PrincipalEntries(st) :
        EntryUnit(st, e)[1] = u \/ HasKey(EntrySubordinates(st, e), u)}

\* Every subordinate listed under a principal unit belongs to an application
\* of the document whose `subordinate-to` names applications of the document,
\* the principal's application among them.
Linked(st) ==
    \A e \in PrincipalEntries(st) :
        \A k \in 1..Len(EntrySubordinates(st, e)) :
            LET app == split(EntrySubordinates(st, e)[k][1], <<"/">>)[1]
            IN  /\ HasKey(st.applications, app)
                /\ Has(Get(st.applications, app), "subordinate-to")
                /\ st.applications[e[1]][1] \in Range(Get(st.applications, app)["subordinate-to"])
                /\ \A p_app \in Range(Get(st.applications, app)["subordinate-to"]) :
                    HasKey(st.applications, p_app)

\* C5: for a unit name enumerated by get_units, unit_to_machine returns the
\* machine of the principal unit under which the name was enumerated, also
\* when other units of the principal application have no subordinates map.
C5_UnitToMachineOfPrincipal ==
    (pc = "unit_to_machine" /\ unit \in Range(get_units(status)) /\ Linked(status)) =>
        /\ ret.err = NoErr
        /\ \E e \in EnumeratedUnder(status, unit) : ret.val = EntryUnit(status, e)[2].machine

\* No unit of a principal application listed in `subordinate-to` has the
\* name u in its subordinates map
NoListedPrincipalOwns(st, app, u) ==
    \A p_app \in Range(Get(st.applications, app)["subordinate-to"]) :
        (/\ HasKey(st.applications, p_app)
         /\ ~Has(Get(st.applications, p_app), "subordinate-to")
         /\ Has(Get(st.applications, p_app), "units")) =>
            \A j \in 1..Len(Get(st.applications, p_app).units) :
                Has(Get(st.applications, p_app).units[j][2], "subordinates") =>
                    ~HasKey(Get(st.applications, p_app).units[j][2].subordinates, u)

IsOrphan(st, u) ==
    LET app == split(u, <<"/">>)[1]
    IN  /\ HasKey(st.applications, app)
        /\ Has(Get(st.applications, app), "subordinate-to")
        /\ \A p_app \in Range(Get(st.applications, app)["subordinate-to"]) :
            HasKey(st.applications, p_app)
        /\ NoListedPrincipalOwns(st, app, u)

\* C6: subordinate_unit_to_principal_unit fails with NoPrincipalFound, and
\* with no other error, for a unit of a subordinate application (whose listed
\* applications are all in the document) that no unit of a listed principal
\* application owns, also when a listed principal application has no units map.
C6_OrphanRaisesNoPrincipalFound ==
    (pc = "subordinate_unit_to_principal_unit" /\ IsOrphan(status, unit)) =>
        ret.err = NoPrincipalFound

(***************************************************************************)
(* core.py: filters and the batch match rule.                              *)
(***************************************************************************)
FilterMode == {"EQUALS", "CONTAINS", "NOT_EQUALS", "NOT_CONTAINS"}

POSITIVE_MODES == {"EQUALS", "CONTAINS"}

NEGATIVE_MODES == {"NOT_EQUALS", "NOT_CONTAINS"}

ObjectType == {"CHARM", "APP", "UNIT", "MACHINE", "IP", "HOSTNAME", "AVAILABILITY_ZONE"}

JockeyFilter(obj_type, mode, content) ==
    [obj_type |-> obj_type, mode |-> mode, content |-> content]

SeqsUpTo(S, n) == UNION {[1..k -> S] : k \in 0..n}

positive_filters(filter_list) == SelectSeq(filter_list, LAMBDA f : f.mode \in POSITIVE_MODES)

negative_filters(filter_list) == SelectSeq(filter_list, LAMBDA f : f.mode \in NEGATIVE_MODES)

\* FILTER_ACTION_MAP applied to (content, value); a value of None equals no
\* content, and its membership test raises (check_filter_match_raises)
check_filter_match(jockey_filter, value) ==
    CASE jockey_filter.mode = "EQUALS" -> jockey_filter.content = value
      [] jockey_filter.mode = "NOT_EQUALS" -> jockey_filter.content # value
      [] jockey_filter.mode = "CONTAINS" -> str_contains(jockey_filter.content, value)
      [] jockey_filter.mode = "NOT_CONTAINS" -> ~str_contains(jockey_filter.content, value)

\* `c in None` and `c not in None` raise TypeError; == and != do not
check_filter_match_raises(jockey_filter, value) ==
    value = None /\ jockey_filter.mode \in {"CONTAINS", "NOT_CONTAINS"}

RECURSIVE all_items_match(_, _, _)
\* all(check_filter_match(filt, item) for item in batch), from item i on
all_items_match(filt, items, i) ==
    IF i > Len(items) THEN Return(TRUE)
    ELSE IF check_filter_match_raises(filt, items[i]) THEN Raise("TypeError")
    ELSE IF ~check_filter_match(filt, items[i]) THEN Return(FALSE)
    ELSE all_items_match(filt, items, i + 1)

RECURSIVE any_item_matches(_, _, _)
\* any(check_filter_match(filt, item) for item in batch), from item i on
any_item_matches(filt, items, i) ==
    IF i > Len(items) THEN Return(FALSE)
    ELSE IF check_filter_match_raises(filt, items[i]) THEN Raise("TypeError")
    ELSE IF check_filter_match(filt, items[i]) THEN Return(TRUE)
    ELSE any_item_matches(filt, items, i + 1)

RECURSIVE batch_positive(_, _, _)
\* core.py:273-277, the loop over the positive filters
batch_positive(pos_filters, items, i) ==
    IF i > Len(pos_filters) THEN Return(TRUE)
    ELSE LET r == any_item_matches(pos_filters[i], items, 1)
         IN  IF r.err # NoErr THEN r
             ELSE IF ~r.val THEN Return(FALSE)
             ELSE batch_positive(pos_filters, items, i + 1)

RECURSIVE batch_negative(_, _, _)
\* core.py:268-270, the loop over the negative filters (FALSE: disqualified)
batch_negative(neg_filters, items, i) ==
    IF i > Len(neg_filters) THEN Return(TRUE)
    ELSE LET r == all_items_match(neg_filters[i], items, 1)
         IN  IF r.err # NoErr THEN r
             ELSE IF ~r.val THEN Return(FALSE)
             ELSE batch_negative(neg_filters, items, i + 1)

\* check_filter_batch_match in which a positive filter must hold for every item
check_filter_batch_match_all(filter_list, items) ==
    LET neg == batch_negative(negative_filters(filter_list), items, 1)
    IN  IF neg.err # NoErr \/ ~neg.val THEN neg
        ELSE batch_negative(positive_filters(filter_list), items, 1)

check_filter_batch_match(filter_list, items) ==
    LET neg == batch_negative(negative_filters(filter_list), items, 1)
    IN  IF neg.err # NoErr \/ ~neg.val THEN neg
        ELSE batch_positive(positive_filters(filter_list), items, 1)

(***************************************************************************)
(* core.py: machine attributes.                                            *)
(***************************************************************************)
\* status["machines"][physical]["containers"][machine][attribute]
container_attribute(st, physical, machine, attribute) ==
    IF ~HasKey(st.machines, physical) THEN Raise("KeyError")
    ELSE IF ~Has(Get(st.machines, physical), "containers") THEN Raise("KeyError")
    ELSE IF ~HasKey(Get(st.machines, physical).containers, machine) THEN Raise("KeyError")
    ELSE IF ~Has(Get(Get(st.machines, physical).containers, machine), attribute)
         THEN Raise("KeyError")
    ELSE Return(Get(Get(st.machines, physical).containers, machine)[attribute])

\* status["machines"][machine][attribute]
machine_attribute(st, machine, attribute) ==
    IF ~HasKey(st.machines, machine) THEN Raise("KeyError")
    ELSE IF ~Has(Get(st.machines, machine), attribute) THEN Raise("KeyError")
    ELSE Return(Get(st.machines, machine)[attribute])

\* The generator raises on its first item; val holds the addresses it yields
machine_to_ips(st, machine) ==
    IF str_contains(LXD, lower(machine))
    THEN container_attribute(st, split(machine, <<"/">>)[1], machine, "ip-addresses")
    ELSE machine_attribute(st, machine, "ip-addresses")

\* machine_to_hostname that reads the hostname of the parent for a container
machine_to_hostname_of_parent(st, machine) ==
    IF str_contains(LXD, machine)
    THEN IF Len(split(machine, <<"/">>)) # 3 THEN Raise("ValueError")
         ELSE machine_attribute(st, split(machine, <<"/">>)[1], "hostname")
    ELSE machine_attribute(st, machine, "hostname")

machine_to_hostname(st, machine) ==
    IF str_contains(LXD, machine)
    THEN IF Len(split(machine, <<"/">>)) # 3 THEN Raise("ValueError")
         ELSE container_attribute(st, split(machine, <<"/">>)[1], machine, "hostname")
    ELSE machine_attribute(st, machine, "hostname")

RECURSIVE availability_zone_of(_, _)
\* core.py:707-711, the loop over the tokens of the hardware string
availability_zone_of(entries, i) ==
    IF i > Len(entries) THEN Return(None)
    ELSE IF Len(split(entries[i], <<"=">>)) # 2 THEN Raise("ValueError")
    ELSE IF split(entries[i], <<"=">>)[1] = AZ_KEY THEN Return(split(entries[i], <<"=">>)[2])
    ELSE availability_zone_of(entries, i + 1)

\* machine_to_availability_zone that reads the hardware of the container itself
machine_to_availability_zone_of_container(st, machine) ==
    IF str_contains(LXD, machine) /\ Len(split(machine, <<"/">>)) # 3 THEN Raise("ValueError")
    ELSE LET hardware == IF str_contains(LXD, machine)
                         THEN container_attribute(st, split(machine, <<"/">>)[1], machine,
                                                  "hardware")
                         ELSE machine_attribute(st, machine, "hardware")
         IN  IF hardware.err # NoErr THEN hardware
             ELSE availability_zone_of(split_ws(hardware.val), 1)

machine_to_availability_zone(st, machine) ==
    IF str_contains(LXD, machine) /\ Len(split(machine, <<"/">>)) # 3 THEN Raise("ValueError")
    ELSE LET parent == IF str_contains(LXD, machine) THEN split(machine, <<"/">>)[1] ELSE machine
             hardware == machine_attribute(st, parent, "hardware")
         IN  IF hardware.err # NoErr THEN hardware
             ELSE availability_zone_of(split_ws(hardware.val), 1)

\* core.py:632-636, the names under `subordinates` of a unit, if it has any
unit_subordinates(st, app, unit_name) ==
    IF Has(Get(Get(st.applications, app).units, unit_name), "subordinates")
    THEN Keys(Get(Get(st.applications, app).units, unit_name).subordinates)
    ELSE <<>>

RECURSIVE machine_to_units_from(_, _, _, _)
\* core.py:621-636, the loop over get_units from unit i on
machine_to_units_from(st, machine, units, i) ==
    IF i > Len(units) THEN Return(<<>>)
    ELSE LET rest == machine_to_units_from(st, machine, units, i + 1)
             units_of(app, on) ==
                 IF ~Truthy(app) THEN Raise("AssertionError")
                 ELSE IF ~is_app_principal(st, app) THEN rest
                 ELSE IF on.err # NoErr THEN on
                 ELSE IF on.val # machine THEN rest
                 ELSE IF rest.err # NoErr THEN rest
                 ELSE Return(<<units[i]>> \o unit_subordinates(st, app, units[i]) \o rest.val)
         IN  units_of(unit_to_application(st, units[i]), unit_to_machine(st, units[i]))

machine_to_units(st, machine) == machine_to_units_from(st, machine, get_units(st), 1)

(***************************************************************************)
(* core.py: filter_units and filter_machines.                              *)
(* A verdict on one candidate is "yield", "skip" or the exception raised;  *)
(* a filter function returns the names yielded before the generator ends   *)
(* (err = NoErr) or raises (err = the exception).                          *)
(***************************************************************************)
of_type(filter_list, obj_type) == SelectSeq(filter_list, LAMBDA f : f.obj_type = obj_type)

\* all(check_filter_match(f, value) for f in filter_list), value a string
all_filters_match(filter_list, value) ==
    \A i \in 1..Len(filter_list) : check_filter_match(filter_list[i], value)

RECURSIVE all_filters_match_optional(_, _, _)
\* all(check_filter_match(f, az) for f in az_filters), az a string or None
all_filters_match_optional(filter_list, value, i) ==
    IF i > Len(filter_list) THEN Return(TRUE)
    ELSE IF check_filter_match_raises(filter_list[i], value) THEN Raise("TypeError")
    ELSE IF ~check_filter_match(filter_list[i], value) THEN Return(FALSE)
    ELSE all_filters_match_optional(filter_list, value, i + 1)

RECURSIVE ip_filters_match(_, _, _, _)
\* core.py:822: all(any(check_filter_match(i_filter, ip) for ip in ips) ...);
\* `ips` is one generator shared by the filters, `consumed` counts the
\* addresses already taken from it
ip_filters_match(ip_filters, ips, i, consumed) ==
    IF i > Len(ip_filters) THEN Return(TRUE)
    ELSE IF ips.err # NoErr THEN ips
    ELSE LET hits == {k \in (consumed + 1)..Len(ips.val) :
                         check_filter_match(ip_filters[i], ips.val[k])}
         IN  IF hits = {} THEN Return(FALSE)
             ELSE ip_filters_match(ip_filters, ips, i + 1, Min(hits))

\* core.py:785-830, the body of the loop of filter_units for one unit
filter_units_verdict(st, filter_list, u) ==
    LET charm_filters == of_type(filter_list, "CHARM")
        app_filters == of_type(filter_list, "APP")
        unit_filters == of_type(filter_list, "UNIT")
        machine_filters == of_type(filter_list, "MACHINE")
        ip_filters == of_type(filter_list, "IP")
        hostname_filters == of_type(filter_list, "HOSTNAME")
        az_filters == of_type(filter_list, "AVAILABILITY_ZONE")
        app_and_charm(app, charm) ==
            IF app_filters = <<>> /\ charm_filters = <<>> THEN "pass"
            ELSE IF ~Truthy(app) THEN "AssertionError"
            ELSE IF ~all_filters_match(app_filters, app) THEN "skip"
            ELSE IF ~Truthy(charm) THEN "AssertionError"
            ELSE IF ~all_filters_match(charm_filters, charm) THEN "skip"
            ELSE "pass"
        \* core.py:825-830, the availability zone of the machine
        az_match_verdict(az_match) ==
            IF az_match.err # NoErr THEN az_match.err
            ELSE IF ~az_match.val THEN "skip"
            ELSE "yield"
        az_verdict(az) ==
            IF az.err # NoErr THEN az.err
            ELSE az_match_verdict(all_filters_match_optional(az_filters, az.val, 1))
        \* core.py:819-823, the addresses of the machine
        ips_verdict(ips, az) ==
            IF ips.err # NoErr THEN ips.err
            ELSE IF ~ips.val THEN "skip"
            ELSE az_verdict(az)
        \* core.py:813-817, the hostname of the machine
        hostname_verdict(hostname, ips, az) ==
            IF hostname.err # NoErr THEN hostname.err
            ELSE IF ~Truthy(hostname.val) THEN "AssertionError"
            ELSE IF ~all_filters_match(hostname_filters, hostname.val) THEN "skip"
            ELSE ips_verdict(ips, az)
        \* core.py:807-811, the machine of the unit
        machine_verdict(machine) ==
            IF machine.err # NoErr THEN machine.err
            ELSE IF ~Truthy(machine.val) THEN "AssertionError"
            ELSE IF ~all_filters_match(machine_filters, machine.val) THEN "skip"
            ELSE hostname_verdict(
                    machine_to_hostname(st, machine.val),
                    ip_filters_match(ip_filters, machine_to_ips(st, machine.val), 1, 0),
                    machine_to_availability_zone(st, machine.val))
        \* core.py:802-805, after the application and charm filters
        unit_verdict(verdict) ==
            IF verdict # "pass" THEN verdict
            ELSE IF machine_filters = <<>> /\ ip_filters = <<>> /\ hostname_filters = <<>>
                 THEN "yield"
            ELSE machine_verdict(unit_to_machine(st, u))
    IN  IF ~all_filters_match(unit_filters, u) THEN "skip"
        ELSE unit_verdict(app_and_charm(unit_to_application(st, u),
                                        application_to_charm(st, unit_to_application(st, u))))

\* A batch match in the loop of filter_machines: "pass", "skip" or the exception
batch_verdict(filter_list, items) ==
    LET r == check_filter_batch_match(filter_list, items)
    IN  IF r.err # NoErr THEN r.err ELSE IF r.val THEN "pass" ELSE "skip"

\* core.py:860-897, the body of the loop of filter_machines for one machine
filter_machines_verdict(st, filter_list, machine) ==
    LET machine_filters == of_type(filter_list, "MACHINE")
        hostname_filters == of_type(filter_list, "HOSTNAME")
        ip_filters == of_type(filter_list, "IP")
        az_filters == of_type(filter_list, "AVAILABILITY_ZONE")
        unit_filters == of_type(filter_list, "UNIT")
        app_filters == of_type(filter_list, "APP")
        charm_filters == of_type(filter_list, "CHARM")
        \* batch_verdict, then the code that follows a match
        matching(verdict, then) == IF verdict # "pass" THEN verdict ELSE then
        \* core.py:892-897, the availability zone of the machine
        az_match_verdict(az_match) ==
            IF az_match.err # NoErr THEN az_match.err
            ELSE IF ~az_match.val THEN "skip"
            ELSE "yield"
        az_verdict(az) ==
            IF az.err # NoErr THEN az.err
            ELSE az_match_verdict(all_filters_match_optional(az_filters, az.val, 1))
        \* core.py:881-890, the applications and the charms of the units
        apps_verdict(apps, az) ==
            IF \E i \in 1..Len(apps) : ~Truthy(apps[i]) THEN "AssertionError"
            ELSE matching(batch_verdict(app_filters, apps),
                 matching(batch_verdict(charm_filters,
                              [i \in 1..Len(apps) |-> application_to_charm(st, apps[i])]),
                          az_verdict(az)))
        \* core.py:876-879, the units of the machine
        units_verdict(units, az) ==
            IF units.err # NoErr THEN units.err
            ELSE matching(batch_verdict(unit_filters, units.val),
                          apps_verdict([i \in 1..Len(units.val) |->
                                           unit_to_application(st, units.val[i])], az))
        \* core.py:870-874, the addresses of the machine
        ips_verdict(ips, units, az) ==
            IF ips.err # NoErr THEN ips.err
            ELSE matching(batch_verdict(ip_filters, ips.val), units_verdict(units, az))
        \* core.py:864-868, the hostname of the machine
        hostname_verdict(hostname, ips, units, az) ==
            IF hostname.err # NoErr THEN hostname.err
            ELSE IF ~Truthy(hostname.val) THEN "AssertionError"
            ELSE IF ~all_filters_match(hostname_filters, hostname.val) THEN "skip"
            ELSE ips_verdict(ips, units, az)
    IN  IF ~all_filters_match(machine_filters, machine) THEN "skip"
        ELSE hostname_verdict(machine_to_hostname(st, machine),
                              machine_to_ips(st, machine),
                              machine_to_units(st, machine),
                              machine_to_availability_zone(st, machine))

Yielded(out) == [out |-> out, err |-> NoErr]

RECURSIVE filter_units_from(_, _, _, _)
\* The generator filter_units over the units from unit i on
filter_units_from(st, filter_list, units, i) ==
    IF i > Len(units) THEN Yielded(<<>>)
    ELSE LET verdict == filter_units_verdict(st, filter_list, units[i])
             rest == filter_units_from(st, filter_list, units, i + 1)
         IN  IF verdict = "yield" THEN [out |-> <<units[i]>> \o rest.out, err |-> rest.err]
             ELSE IF verdict = "skip" THEN rest
             ELSE [out |-> <<>>, err |-> verdict]

filter_units(st, filter_list) == filter_units_from(st, filter_list, get_units(st), 1)

RECURSIVE filter_machines_from(_, _, _, _)
\* The generator filter_machines over the machines from machine i on
filter_machines_from(st, filter_list, machines, i) ==
    IF i > Len(machines) THEN Yielded(<<>>)
    ELSE LET verdict == filter_machines_verdict(st, filter_list, machines[i])
             rest == filter_machines_from(st, filter_list, machines, i + 1)
         IN  IF verdict = "yield" THEN [out |-> <<machines[i]>> \o rest.out, err |-> rest.err]
             ELSE IF verdict = "skip" THEN rest
             ELSE [out |-> <<>>, err |-> verdict]

filter_machines(st, filter_list) == filter_machines_from(st, filter_list, get_machines(st), 1)

(***************************************************************************)
(* The batch match rule as a state machine: a filter list and a batch of   *)
(* names are given, then check_filter_batch_match is called.               *)
(***************************************************************************)
BatchContents == {<<"a">>, <<"a", "b">>}

BatchItems == {<<"a">>, <<"b">>, <<"a", "b">>}

BatchFilters == {JockeyFilter("APP", m, c) : m \in FilterMode, c \in BatchContents}

InitBatch ==
    /\ status = EmptyStatus
    /\ filters \in SeqsUpTo(BatchFilters, MaxFilters)
    /\ batch \in SeqsUpTo(BatchItems, MaxBatch)
    /\ expression = <<>>
    /\ unit = None
    /\ args = NoArgs
    /\ pc = "start"
    /\ ret = <<>>
    /\ cache = None
    /\ now = 0

CheckFilterBatchMatch ==
    /\ pc = "start"
    /\ pc' = "check_filter_batch_match"
    /\ ret' = check_filter_batch_match(filters, batch)
    /\ UNCHANGED <<status, filters, batch, expression, unit, args, cache, now>>

NextBatch == CheckFilterBatchMatch

SpecBatch == InitBatch /\ [][NextBatch]_vars

\* C3: check_filter_batch_match returns true iff every negative-mode filter
\* holds for every item and every positive-mode filter holds for at least one
\* item; an empty batch passes iff there is no positive-mode filter and an
\* empty filter list passes for every batch.
C3_BatchMatchRule ==
    pc = "check_filter_batch_match" =>
        /\ ret.err = NoErr
        /\ ret.val <=>
            /\ \A i \in 1..Len(filters) : filters[i].mode \in NEGATIVE_MODES =>
                \A k \in 1..Len(batch) : check_filter_match(filters[i], batch[k])
            /\ \A i \in 1..Len(filters) : filters[i].mode \in POSITIVE_MODES =>
                \E k \in 1..Len(batch) : check_filter_match(filters[i], batch[k])
        /\ batch = <<>> =>
            (ret.val <=> \A i \in 1..Len(filters) : filters[i].mode \notin POSITIVE_MODES)
        /\ filters = <<>> => ret.val

\* A positive filter passes on a batch in which one item violates it, and a
\* negative filter of the same list holds for every item
C3_Witness ==
    /\ pc = "check_filter_batch_match"
    /\ ret.err = NoErr /\ ret.val
    /\ \E i \in 1..Len(filters) :
        /\ filters[i].mode \in POSITIVE_MODES
        /\ \E k \in 1..Len(batch) : ~check_filter_match(filters[i], batch[k])
    /\ \E i \in 1..Len(filters) : filters[i].mode \in NEGATIVE_MODES

(***************************************************************************)
(* Filtering as a state machine: a status document and a parsed filter     *)
(* list are given, then filter_units or filter_machines runs to its end.   *)
(***************************************************************************)
\* Status documents that vary the attributes of machine "0" and the machine
\* of unit p/1; unit p/0 runs on machine "0" and has the subordinate s/0.
FilterStatuses ==
    { JujuStatus(
        Applications(2, <<M0, m>>, <<"own", "absent">>, <<P_APP>>, "nounits", FALSE, TRUE),
        << <<M0, MachineRecord(hostname, ips, hardware, Some(Containers(M0, 1)))>>,
           <<M1, MachineRecord(Some(HostName(M1)), Some(<<IP12>>), Some(HW(Z2)), Absent)>> >>) :
        <<m, hostname, ips, hardware>> \in
            {M1, C00}
            \X {Absent, Some(HostName(M0))}
            \X {Absent, Some(<<IP10>>), Some(<<IP10, IP11>>)}
            \X {Absent, Some(HW_NOAZ), Some(HW(Z1)), Some(HW_BAD)} }

FilterUniverse ==
    { JockeyFilter("UNIT", "EQUALS", UnitName(P_APP, 0)),
      JockeyFilter("UNIT", "NOT_CONTAINS", S_APP),
      JockeyFilter("APP", "EQUALS", P_APP),
      JockeyFilter("APP", "NOT_EQUALS", P_APP),
      JockeyFilter("CHARM", "EQUALS", CHARM_P),
      JockeyFilter("MACHINE", "EQUALS", M0),
      JockeyFilter("MACHINE", "CONTAINS", LXD),
      JockeyFilter("HOSTNAME", "CONTAINS", <<"h">>),
      JockeyFilter("IP", "EQUALS", IP10),
      JockeyFilter("IP", "EQUALS", IP11),
      JockeyFilter("IP", "NOT_EQUALS", IP10),
      JockeyFilter("IP", "CONTAINS", <<"1">>),
      JockeyFilter("AVAILABILITY_ZONE", "EQUALS", Z1),
      JockeyFilter("AVAILABILITY_ZONE", "NOT_EQUALS", Z1),
      JockeyFilter("AVAILABILITY_ZONE", "CONTAINS", <<"z">>) }

InitFilter ==
    /\ status \in FilterStatuses
    /\ filters \in SeqsUpTo(FilterUniverse, MaxFilters)
    /\ batch = <<>>
    /\ expression = <<>>
    /\ unit = None
    /\ args = NoArgs
    /\ pc = "start"
    /\ ret = <<>>
    /\ cache = None
    /\ now = 0

FilterUnits ==
    /\ pc = "start"
    /\ pc' = "filter_units"
    /\ ret' = filter_units(status, filters)
    /\ UNCHANGED <<status, filters, batch, expression, unit, args, cache, now>>

FilterMachines ==
    /\ pc = "start"
    /\ pc' = "filter_machines"
    /\ ret' = filter_machines(status, filters)
    /\ UNCHANGED <<status, filters, batch, expression, unit, args, cache, now>>

NextFilter ==
    \/ FilterUnits
    \/ FilterMachines

SpecFilter == InitFilter /\ [][NextFilter]_vars

\* The filter f evaluates true for the value of the unit u that corresponds to
\* the target kind of f (for IP: for one address of the unit's machine)
FilterHoldsForUnit(st, f, u) ==
    LET machine == unit_to_machine(st, u)
        hostname == machine_to_hostname(st, machine.val)
        ips == machine_to_ips(st, machine.val)
        az == machine_to_availability_zone(st, machine.val)
    IN  CASE f.obj_type = "UNIT" -> check_filter_match(f, u)
          [] f.obj_type = "APP" -> check_filter_match(f, unit_to_application(st, u))
          [] f.obj_type = "CHARM" ->
                check_filter_match(f, application_to_charm(st, unit_to_application(st, u)))
          [] f.obj_type = "MACHINE" -> machine.err = NoErr /\ check_filter_match(f, machine.val)
          [] f.obj_type = "HOSTNAME" ->
                /\ machine.err = NoErr /\ hostname.err = NoErr
                /\ check_filter_match(f, hostname.val)
          [] f.obj_type = "IP" ->
                /\ machine.err = NoErr /\ ips.err = NoErr
                /\ \E k \in 1..Len(ips.val) : check_filter_match(f, ips.val[k])
          [] f.obj_type = "AVAILABILITY_ZONE" ->
                /\ machine.err = NoErr /\ az.err = NoErr
                /\ ~check_filter_match_raises(f, az.val)
                /\ check_filter_match(f, az.val)

\* Every top-level machine has a hardware string made of key=value tokens
\* (juju_schema: `hardware` is required, `hostname` and `ip-addresses` are not)
HardwareWellFormed(st) ==
    \A i \in 1..Len(st.machines) :
        /\ Has(st.machines[i][2], "hardware")
        /\ \A k \in 1..Len(split_ws(st.machines[i][2].hardware)) :
            Len(split(split_ws(st.machines[i][2].hardware)[k], <<"=">>)) = 2

\* The document holds everything the filters resolve: every top-level machine
\* has a hostname, IP addresses and a well-formed hardware string
Resolvable(st) ==
    /\ HardwareWellFormed(st)
    /\ \A i \in 1..Len(st.machines) :
        Has(st.machines[i][2], "hostname") /\ Has(st.machines[i][2], "ip-addresses")

\* C1: filter_units returns a unit only if every filter of the list evaluates
\* true for the unit's corresponding value, for every combination of target
\* kinds, a list of availability-zone filters only included (on documents that
\* hold every attribute the filters resolve).
C1_FilterUnitsConjunction ==
    (pc = "filter_units" /\ Resolvable(status)) =>
        \A k \in 1..Len(ret.out) : \A i \in 1..Len(filters) :
            FilterHoldsForUnit(status, filters[i], ret.out[k])

Orders(n) == {p \in [1..n -> 1..n] : \A a, b \in 1..n : p[a] = p[b] => a = b}

Permuted(seq, p) == [i \in 1..Len(seq) |-> seq[p[i]]]

\* C2: filter_units and filter_machines return the same result for every
\* permutation of the filter list (compared whenever both evaluations end
\* without an exception).
C2_FilterOrderIrrelevant ==
    /\ (pc = "filter_units" /\ ret.err = NoErr) =>
        \A p \in Orders(Len(filters)) :
            LET other == filter_units(status, Permuted(filters, p))
            IN  other.err = NoErr => other = ret
    /\ (pc = "filter_machines" /\ ret.err = NoErr) =>
        \A p \in Orders(Len(filters)) :
            LET other == filter_machines(status, Permuted(filters, p))
            IN  other.err = NoErr => other = ret

\* C4: a unit returned by filter_units has a machine whose IP addresses pass
\* the batch match rule for the IP filters of the list (a negative IP filter
\* holds for every address, a positive one for at least one), on documents
\* that hold every attribute the filters resolve.
C4_FilterUnitsIpBatchRule ==
    (pc = "filter_units" /\ Resolvable(status)) =>
        \A k \in 1..Len(ret.out) :
            of_type(filters, "IP") # <<>> =>
                LET ips == machine_to_ips(status, unit_to_machine(status, ret.out[k]).val)
                    verdict == check_filter_batch_match(of_type(filters, "IP"), ips.val)
                IN  verdict.err = NoErr /\ verdict.val

\* C9: with an empty filter list filter_units returns exactly the sequence of
\* get_units and filter_machines exactly the sequence of get_machines, without
\* error, on every document of the data model (hostname and IP addresses of a
\* machine are optional).
C9_EmptyFilterListReturnsAll ==
    (filters = <<>> /\ HardwareWellFormed(status)) =>
        /\ pc = "filter_units" => ret = Yielded(get_units(status))
        /\ pc = "filter_machines" => ret = Yielded(get_machines(status))

(***************************************************************************)
(* filters.py: parse_filter_expression.                                    *)
(***************************************************************************)
\* The members of filters.FilterMode in definition order, with their tokens
FilterTypes ==
    << [name |-> "EQUALS", tokens |-> << <<"=", "=">>, <<"=">> >>],
       [name |-> "NOT_EQUALS", tokens |-> << <<"^", "=">>, <<"!", "=">> >>],
       [name |-> "REGEX", tokens |-> << <<"%">> >>],
       [name |-> "NOT_REGEX", tokens |-> << <<"^", "%">>, <<"!", "%">> >>],
       [name |-> "GREATER_THAN", tokens |-> << <<">">> >>],
       [name |-> "GREATER_THAN_OR_EQUALS", tokens |-> << <<">", "=">>, <<"=", ">">> >>],
       [name |-> "LESS_THAN", tokens |-> << <<"<">> >>],
       [name |-> "LESS_THAN_OR_EQUALS", tokens |-> << <<"<", "=">>, <<"=", "<">> >>],
       [name |-> "CONTAINS", tokens |-> << <<"~">> >>],
       [name |-> "NOT_CONTAINS", tokens |-> << <<"!", "~">>, <<"^", "~">> >>] >>

\* FilterMode.tokens()
tokens == UNION {Range(FilterTypes[i].tokens) : i \in 1..Len(FilterTypes)}

\* sorted(tokens, key=len, reverse=True) of a set of one or two tokens; the
\* iteration order of the set decides between tokens of equal length (tie)
sorted_tokens(token_set, tie) ==
    IF Len(token_set) = 1 THEN token_set
    ELSE IF Len(token_set[1]) > Len(token_set[2]) THEN token_set
    ELSE IF Len(token_set[1]) < Len(token_set[2]) THEN <<token_set[2], token_set[1]>>
    ELSE IF tie THEN token_set
    ELSE <<token_set[2], token_set[1]>>

Parsed(mode, field, query) == [err |-> NoErr, mode |-> mode, field |-> field, query |-> query]

ParseError(exc) == [err |-> exc, mode |-> "", field |-> None, query |-> None]

\* `field, query = expression.split(token)` and wrap_filter_action(mode, field, query)
split_expression(expr, mode, token) ==
    IF Len(split(expr, token)) # 2 THEN ParseError("ValueError: unpack")
    ELSE Parsed(mode, split(expr, token)[1], split(expr, token)[2])

\* filters.py:362, raise ValueError(f"Invalid filter expression '{expression}'")
InvalidExpression == "ValueError: Invalid filter expression"

RECURSIVE parse_from(_, _, _, _)
\* filters.py:346-362, the loops over the modes (i) and their sorted tokens (j)
parse_from(expr, tie, i, j) ==
    IF i > Len(FilterTypes) THEN ParseError(InvalidExpression)
    ELSE LET sorted == sorted_tokens(FilterTypes[i].tokens, tie)
         IN  IF j > Len(sorted) THEN parse_from(expr, tie, i + 1, 1)
             ELSE IF str_contains(sorted[j], expr)
                  THEN split_expression(expr, FilterTypes[i].name, sorted[j])
             ELSE parse_from(expr, tie, i, j + 1)

parse_filter_expression(expr, tie) == parse_from(expr, tie, 1, 1)

(***************************************************************************)
(* Expression parsing as a state machine: an expression is given, then     *)
(* parse_filter_expression is called on it.                                *)
(***************************************************************************)
ExpressionChars == {"f", "=", "^", "!", "%", ">", "<", "~"}

InitParse ==
    /\ status = EmptyStatus
    /\ filters = <<>>
    /\ batch = <<>>
    /\ expression \in SeqsUpTo(ExpressionChars, MaxExprLen)
    /\ unit = None
    /\ args = NoArgs
    /\ pc = "start"
    /\ ret = <<>>
    /\ cache = None
    /\ now = 0

ParseFilterExpression ==
    /\ pc = "start"
    /\ pc' = "parse_filter_expression"
    /\ \E tie \in BOOLEAN : ret' = parse_filter_expression(expression, tie)
    /\ UNCHANGED <<status, filters, batch, expression, unit, args, cache, now>>

NextParse == ParseFilterExpression

SpecParse == InitParse /\ [][NextParse]_vars

NoToken(v) == \A t \in tokens : ~str_contains(t, v)

\* C10: for every operator token t and every (non-empty) field and content
\* without an operator token, parsing field + t + content yields a predicate
\* whose field is exactly `field` and whose query is exactly `content`.
C10_SplitRoundTrip ==
    pc = "parse_filter_expression" =>
        \A t \in tokens : \A i \in 0..(Len(expression) - Len(t)) :
            LET field == SubSeq(expression, 1, i)
                content == SubSeq(expression, i + Len(t) + 1, Len(expression))
            IN  (/\ SubSeq(expression, i + 1, i + Len(t)) = t
                 /\ field # <<>> /\ NoToken(field)
                 /\ content # <<>> /\ NoToken(content))
                    => (ret.err = NoErr /\ ret.field = field /\ ret.query = content)

\* The member of FilterMode that owns the token t
TokenOwner(t) ==
    FilterTypes[CHOOSE i \in 1..Len(FilterTypes) : t \in Range(FilterTypes[i].tokens)].name

TwoCharTokens == {t \in tokens : Len(t) = 2}

\* C11: an expression field + t + content written with a two-character token t
\* (field and content non-empty and free of operator tokens) is parsed with the
\* operator that owns t, never with the operator of a one-character token that
\* t contains.
C11_LongestTokenWins ==
    pc = "parse_filter_expression" =>
        \A t \in TwoCharTokens :
            LET field == SubSeq(expression, 1, 1)
                content == SubSeq(expression, 4, Len(expression))
            IN  (/\ Len(expression) >= 4
                 /\ SubSeq(expression, 2, 3) = t
                 /\ NoToken(field) /\ NoToken(content))
                    => (ret.err = NoErr /\ ret.mode = TokenOwner(t))

\* C12: parse_filter_expression fails with the invalid-expression error exactly
\* when no operator token occurs in the expression; an expression that holds
\* an operator token is parsed into field, token and query that make up the
\* expression again, also when the token occurs more than once.
C12_RejectsOnlyWithoutToken ==
    pc = "parse_filter_expression" =>
        /\ ret.err = InvalidExpression <=> NoToken(expression)
        /\ ~NoToken(expression) =>
            /\ ret.err = NoErr
            /\ \E t \in Range(FilterTypes[CHOOSE i \in 1..Len(FilterTypes) :
                                             FilterTypes[i].name = ret.mode].tokens) :
                    ret.field \o t \o ret.query = expression

(***************************************************************************)
(* filters.py: the filter actions and wrap_filter_action.                  *)
(* A field value is a string, a Boolean, an integer, null or a nested       *)
(* mapping: a record with the one attribute that names its Python type.    *)
(***************************************************************************)
Str(v) == [str |-> v]

Bool(b) == [bool |-> b]

Integer(n) == [int |-> n]

\* The value None of a null field
Null == [NoneType |-> TRUE]

Mapping(d) == [dict |-> d]

\* type(value)
type(value) == CHOOSE t \in DOMAIN value : TRUE

\* The characters of the model in the order of their code points
ord(c) ==
    LET CodePoints ==
        << "-", ".", "/", "0", "1", "2", "3", "4", "5", "6", "7", "8", "9",
           "=", "A", "B", "C", "D", "E", "F", "G", "H", "I", "J", "K", "L",
           "M", "N", "O", "P", "Q", "R", "S", "T", "U", "V", "W", "X", "Y",
           "Z", "^", "_", "a", "b", "c", "d", "e", "f", "g", "h", "i", "j",
           "k", "l", "m", "n", "o", "p", "q", "r", "s", "t", "u", "v", "w",
           "x", "y", "z", "~" >>
    IN  CHOOSE k \in 1..Len(CodePoints) : CodePoints[k] = c

RECURSIVE str_less(_, _)
\* Python a < b for two strings
str_less(a, b) ==
    IF b = <<>> THEN FALSE
    ELSE IF a = <<>> THEN TRUE
    ELSE IF Head(a) = Head(b) THEN str_less(Tail(a), Tail(b))
    ELSE ord(Head(a)) < ord(Head(b))

\* Python value < query for two values of one type (False < True)
less_than(value, query) ==
    IF type(value) = "bool" THEN ~value.bool /\ query.bool
    ELSE IF type(value) = "int" THEN value.int < query.int
    ELSE str_less(value.str, query.str)

\* Python value == query
equals(value, query) == value = query

RECURSIVE decimal(_)
\* Python str(n) for an integer n >= 0
decimal(n) ==
    (IF n < 10 THEN <<>> ELSE decimal(n \div 10))
    \o <<(<<"0", "1", "2", "3", "4", "5", "6", "7", "8", "9">>)[(n % 10) + 1]>>

\* Python str(value)
to_str(value) ==
    IF type(value) = "bool"
    THEN (IF value.bool THEN <<"T", "r", "u", "e">> ELSE <<"F", "a", "l", "s", "e">>)
    ELSE IF type(value) = "int" THEN decimal(value.int)
    ELSE IF type(value) = "NoneType" THEN <<"N", "o", "n", "e">>
    ELSE value.str

\* regex.search(pattern, string, flags=REGEX_FLAGS, timeout=REGEX_TIMEOUT) is not
\* None, for a pattern of literal characters; `timeout`: the search exceeds
\* REGEX_TIMEOUT
regex_search(pattern, string, timeout) ==
    IF timeout THEN Raise("TimeoutError")
    ELSE Return(str_contains(lower(pattern), lower(string)))

\* regex_filter that answers False when the search times out
regex_filter_silent(value, query, timeout) ==
    LET found(r) == IF r.err # NoErr THEN Return(FALSE) ELSE r
    IN  found(regex_search(to_str(query), to_str(value), timeout))

regex_filter(value, query, timeout) ==
    LET found(r) == IF r.err # NoErr THEN Raise(r.err) ELSE r
    IN  found(regex_search(to_str(query), to_str(value), timeout))

not_regex_filter(value, query, timeout) ==
    LET not_found(r) == IF r.err # NoErr THEN Raise(r.err) ELSE Return(~r.val)
    IN  not_found(regex_search(to_str(query), to_str(value), timeout))

\* `query in value`: a Boolean, an integer and None are not iterable
contains_filter(value, query) ==
    IF type(value) # "str" THEN Raise("TypeError")
    ELSE Return(str_contains(query.str, value.str))

not_contains_filter(value, query) ==
    IF type(value) # "str" THEN Raise("TypeError")
    ELSE Return(~str_contains(query.str, value.str))

\* mode.value.action applied to (value, query)
filter_action(mode, value, query, timeout) ==
    CASE mode = "EQUALS" -> Return(equals(value, query))
      [] mode = "NOT_EQUALS" -> Return(~equals(value, query))
      [] mode = "REGEX" -> regex_filter(value, query, timeout)
      [] mode = "NOT_REGEX" -> not_regex_filter(value, query, timeout)
      [] mode = "GREATER_THAN" -> Return(less_than(query, value))
      [] mode = "GREATER_THAN_OR_EQUALS" -> Return(~less_than(value, query))
      [] mode = "LESS_THAN" -> Return(less_than(value, query))
      [] mode = "LESS_THAN_OR_EQUALS" -> Return(~less_than(query, value))
      [] mode = "CONTAINS" -> contains_filter(value, query)
      [] mode = "NOT_CONTAINS" -> not_contains_filter(value, query)

\* abstractions.uses_typevar_params(action): both parameters of the action are
\* annotated with a TypeVar (E_C, O_C, OE_C), not with str or Any
uses_typevar_params(mode) ==
    mode \in {"EQUALS", "NOT_EQUALS", "GREATER_THAN", "GREATER_THAN_OR_EQUALS",
              "LESS_THAN", "LESS_THAN_OR_EQUALS"}

TruthyWords == {<<"t", "r", "u", "e">>, <<"t">>, <<"1">>, <<"y", "e", "s">>, <<"y">>}

\* bool_type_parser that compares the query as written
bool_type_parser_cased(value) == value \in TruthyWords

bool_type_parser(value) == lower(value) \in TruthyWords

RECURSIVE int_value(_)
\* The number that a string of decimal digits denotes
int_value(digits) ==
    IF digits = <<>> THEN 0
    ELSE 10 * int_value(SubSeq(digits, 1, Len(digits) - 1))
         + (CHOOSE d \in 0..9 : decimal(d) = <<digits[Len(digits)]>>)

\* Python int(query) for a query of letters and digits: decimal digits with
\* an optional minus sign
int(query) ==
    LET digits == IF query # <<>> /\ Head(query) = "-" THEN Tail(query) ELSE query
    IN  IF digits = <<>> \/ \E k \in 1..Len(digits) : \A d \in 0..9 : decimal(d) # <<digits[k]>>
        THEN Raise("ValueError")
        ELSE Return(Integer(IF digits = query THEN int_value(digits) ELSE 0 - int_value(digits)))

\* type_parser_for(type(value))(query): bool_type_parser for a Boolean, the
\* type itself otherwise (NoneType takes no arguments)
type_parser_for(t, query) ==
    IF t = "bool" THEN Return(Bool(bool_type_parser(query)))
    ELSE IF t = "int" THEN int(query)
    ELSE IF t = "NoneType" THEN Raise("TypeError")
    ELSE Return(Str(query))

RECURSIVE get_from(_, _)
\* dotty(item)[field], from the mapping `data` along the segments `items`
get_from(items, data) ==
    IF ~HasKey(data.dict, Head(items)) THEN Raise("KeyError")
    ELSE IF Tail(items) = <<>> THEN Return(Get(data.dict, Head(items)))
    ELSE get_from(Tail(items), Get(data.dict, Head(items)))

dotty(item, field) == get_from(split(field, <<".">>), item)

\* The closure that wrap_filter_action returns
wrap_filter_action(mode, field, query) == [mode |-> mode, field |-> field, query |-> query]

\* wrapped_filter_action that lets the KeyError of the lookup through
wrapped_filter_action_raising(wrapped, item, timeout) ==
    LET act(value, parsed_query) ==
            IF parsed_query.err # NoErr THEN parsed_query
            ELSE filter_action(wrapped.mode, value, parsed_query.val, timeout)
        compare(value) ==
            IF value.err # NoErr THEN Raise(value.err)
            ELSE act(value.val, IF uses_typevar_params(wrapped.mode)
                                THEN type_parser_for(type(value.val), wrapped.query)
                                ELSE Return(Str(wrapped.query)))
    IN  compare(dotty(item, wrapped.field))

\* wrapped_filter_action that answers False where the query cannot be
\* converted
wrapped_filter_action_unconverted(wrapped, item, timeout) ==
    LET act(value, parsed_query) ==
            IF parsed_query.err # NoErr THEN Return(FALSE)
            ELSE filter_action(wrapped.mode, value, parsed_query.val, timeout)
        compare(value) ==
            IF value.err = "KeyError" THEN Return(FALSE)
            ELSE act(value.val, IF uses_typevar_params(wrapped.mode)
                                THEN type_parser_for(type(value.val), wrapped.query)
                                ELSE Return(Str(wrapped.query)))
    IN  compare(dotty(item, wrapped.field))

wrapped_filter_action(wrapped, item, timeout) ==
    LET act(value, parsed_query) ==
            IF parsed_query.err # NoErr THEN parsed_query
            ELSE filter_action(wrapped.mode, value, parsed_query.val, timeout)
        compare(value) ==
            IF value.err = "KeyError" THEN Return(FALSE)
            ELSE act(value.val, IF uses_typevar_params(wrapped.mode)
                                THEN type_parser_for(type(value.val), wrapped.query)
                                ELSE Return(Str(wrapped.query)))
    IN  compare(dotty(item, wrapped.field))

(***************************************************************************)
(* A wrapped filter action as a state machine: an operator, a field path,  *)
(* a query string and an entity are given, then the predicate that         *)
(* wrap_filter_action builds is called on the entity.                      *)
(***************************************************************************)
\* Entities {a: value, n: {b: value}} in which a and n.b are optional
WrapItems ==
    LET values == {Str(<<"x">>), Str(<<"X", "y">>), Bool(TRUE), Bool(FALSE), Integer(9), Null}
        entry(key) == {<<>>} \cup {<< <<key, v>> >> : v \in values}
    IN  { Mapping(top \o << <<<<"n">>, Mapping(inner)>> >>) :
            top \in entry(<<"a">>), inner \in entry(<<"b">>) }

InitWrap ==
    /\ status = EmptyStatus
    /\ filters = <<>>
    /\ batch = <<>>
    /\ expression = <<>>
    /\ unit = None
    /\ args \in [mode : {FilterTypes[i].name : i \in 1..Len(FilterTypes)},
                 field : {<<"a">>, <<"n", ".", "b">>, <<"n", ".", "c">>, <<"z">>,
                          <<"z", ".", "b">>},
                 query : {<<>>, <<"x">>, <<"X">>, <<"y">>, <<"Y", "e", "s">>, <<"n", "o">>,
                          <<"T", "R", "U", "E">>, <<"1">>, <<"1", "0">>},
                 item : WrapItems, timeout : BOOLEAN]
    /\ pc = "start"
    /\ ret = <<>>
    /\ cache = None
    /\ now = 0

WrappedFilterAction ==
    /\ pc = "start"
    /\ pc' = "wrapped_filter_action"
    /\ ret' = wrapped_filter_action(wrap_filter_action(args.mode, args.field, args.query),
                                    args.item, args.timeout)
    /\ UNCHANGED <<status, filters, batch, expression, unit, args, cache, now>>

NextWrap == WrappedFilterAction

SpecWrap == InitWrap /\ [][NextWrap]_vars

RECURSIVE PathAbsent(_, _)
\* A segment of the path is absent on the entity
PathAbsent(segments, data) ==
    \/ type(data) # "dict"
    \/ ~HasKey(data.dict, Head(segments))
    \/ Tail(segments) # <<>> /\ PathAbsent(Tail(segments), Get(data.dict, Head(segments)))

FieldAbsent == PathAbsent(split(args.field, <<".">>), args.item)

C14_TimeoutPropagates ==
    (/\ pc = "wrapped_filter_action"
     /\ args.mode \in {"REGEX", "NOT_REGEX"}
     /\ ~FieldAbsent
     /\ args.timeout) => ret.err = "TimeoutError"

C14_Witness ==
    /\ pc = "wrapped_filter_action"
    /\ args.mode = "NOT_REGEX"
    /\ ~FieldAbsent
    /\ args.timeout
    /\ ret.err = "TimeoutError"

\* C15: on a Boolean field value an EQUALS predicate with query Q returns
\* true iff the value equals (lowercase(Q) is one of true, t, 1, yes, y), and
\* a NOT_EQUALS predicate returns the opposite.
C15_BooleanCoercion ==
    (/\ pc = "wrapped_filter_action"
     /\ args.mode \in {"EQUALS", "NOT_EQUALS"}
     /\ ~FieldAbsent
     /\ type(dotty(args.item, args.field).val) = "bool") =>
        LET value == dotty(args.item, args.field).val.bool
            coerced == lower(args.query) \in {<<"t", "r", "u", "e">>, <<"t">>, <<"1">>, <<"y", "e", "s">>, <<"y">>}
        IN  /\ ret.err = NoErr
            /\ ret.val <=> (IF args.mode = "EQUALS" THEN value <=> coerced
                            ELSE ~(value <=> coerced))

\* The query "Yes" equals a true value, and "no" equals a false value
C15_Witness ==
    /\ pc = "wrapped_filter_action"
    /\ args.mode = "EQUALS"
    /\ args.query = <<"Y", "e", "s">>
    /\ ~FieldAbsent
    /\ dotty(args.item, args.field).val = Bool(TRUE)
    /\ ret.err = NoErr /\ ret.val

(***************************************************************************)
(* core.py: object type abbreviations, parse_filter_string and query.      *)
(***************************************************************************)
\* The members of core.ObjectType in definition order, with their aliases
ObjectTypeValues ==
    << [name |-> "CHARM", value |->
          << <<"c", "h", "a", "r", "m", "s">>,
             <<"c", "h", "a", "r", "m">>,
             <<"c">> >>],
       [name |-> "APP", value |->
          << <<"a", "p", "p", "l", "i", "c", "a", "t", "i", "o", "n", "s">>,
             <<"a", "p", "p">>,
             <<"a", "p", "p", "s">>,
             <<"a", "p", "p", "l", "i", "c", "a", "t", "i", "o", "n">>,
             <<"a">> >>],
       [name |-> "UNIT", value |->
          << <<"u", "n", "i", "t", "s">>,
             <<"u", "n", "i", "t">>,
             <<"u">> >>],
       [name |-> "MACHINE", value |->
          << <<"m", "a", "c", "h", "i", "n", "e", "s">>,
             <<"m", "a", "c", "h", "i", "n", "e">>,
             <<"m">> >>],
       [name |-> "IP", value |->
          << <<"i", "p", "s">>,
             <<"a", "d", "d", "r", "e", "s", "s">>,
             <<"a", "d", "d", "r", "e", "s", "s", "e", "s">>,
             <<"i", "p">>,
             <<"i">> >>],
       [name |-> "HOSTNAME", value |->
          << <<"h", "o", "s", "t", "n", "a", "m", "e", "s">>,
             <<"h", "o", "s", "t", "n", "a", "m", "e">>,
             <<"h", "o", "s", "t">>,
             <<"h", "o", "s", "t", "s">>,
             <<"h">> >>],
       [name |-> "AVAILABILITY_ZONE", value |->
          << <<"a", "v", "a", "i", "l", "a", "b", "i", "l", "i", "t", "y", "-", "z", "o", "n", "e">>,
             <<"a", "v", "a", "i", "l", "a", "b", "i", "l", "i", "t", "y", "_", "z", "o", "n", "e">>,
             <<"a", "z">>,
             <<"z", "o", "n", "e">> >>] >>

\* The members of core.FilterMode in definition order, with their codes
FilterModeValues ==
    << [name |-> "EQUALS", value |-> <<"=">>],
       [name |-> "CONTAINS", value |-> <<"~">>],
       [name |-> "NOT_EQUALS", value |-> <<"^", "=">>],
       [name |-> "NOT_CONTAINS", value |-> <<"^", "~">>] >>

\* The None that convert_object_abbreviation returns for no object type
NoObjectType == "None"

\* convert_object_abbreviation that compares the abbreviation as written
convert_object_abbreviation_cased(abbrev) ==
    LET found == {i \in 1..Len(ObjectTypeValues) : abbrev \in Range(ObjectTypeValues[i].value)}
    IN  IF found = {} THEN NoObjectType ELSE ObjectTypeValues[Min(found)].name

convert_object_abbreviation(abbrev) ==
    LET found == {i \in 1..Len(ObjectTypeValues) :
                     lower(abbrev) \in Range(ObjectTypeValues[i].value)}
    IN  IF found = {} THEN NoObjectType ELSE ObjectTypeValues[Min(found)].name

\* The characters of filter_code_pattern, [=^~]+
CodeChars == {"=", "^", "~"}

\* filter_code_pattern.findall(filter_str): the start of every maximal run
filter_codes(filter_str) ==
    {i \in 1..Len(filter_str) :
        filter_str[i] \in CodeChars /\ (i = 1 \/ filter_str[i - 1] \notin CodeChars)}

char_blacklist_without_comma == {"_", ":", ";", "\\", "\t", "\n"}

char_blacklist == {"_", ":", ";", "\\", "\t", "\n", ","}

\* parse_filter_string in which the content starts at the filter code
parse_filter_string_from_code(filter_str) ==
    LET parse(start, end) ==
            LET object_type == convert_object_abbreviation(SubSeq(filter_str, 1, start - 1))
                group == SubSeq(filter_str, start, end)
                modes == {i \in 1..Len(FilterModeValues) : FilterModeValues[i].value = group}
                content == SubSeq(filter_str, start, Len(filter_str))
            IN  IF object_type = NoObjectType THEN Raise("AssertionError: Invalid object type detected in filter string.")
                ELSE IF modes = {} THEN Raise("AssertionError: Invalid filter mode detected")
                ELSE IF content = <<>> THEN Raise("AssertionError: Empty content detected in filter string.")
                ELSE IF \E k \in 1..Len(content) : content[k] \in char_blacklist
                     THEN Raise("AssertionError: Blacklisted characters detected in filter string content.")
                ELSE Return(JockeyFilter(object_type, FilterModeValues[Min(modes)].name,
                                         content))
        \* match.end(): the run of code characters ends before this position
        first(start) ==
            parse(start, CHOOSE j \in start..Len(filter_str) :
                            /\ \A k \in start..j : filter_str[k] \in CodeChars
                            /\ j = Len(filter_str) \/ filter_str[j + 1] \notin CodeChars)
    IN  IF Cardinality(filter_codes(filter_str)) # 1 THEN Raise("AssertionError: Incorrect number of filter codes detected.")
        ELSE first(Min(filter_codes(filter_str)))

parse_filter_string(filter_str) ==
    LET parse(start, end) ==
            LET object_type == convert_object_abbreviation(SubSeq(filter_str, 1, start - 1))
                group == SubSeq(filter_str, start, end)
                modes == {i \in 1..Len(FilterModeValues) : FilterModeValues[i].value = group}
                content == SubSeq(filter_str, end + 1, Len(filter_str))
            IN  IF object_type = NoObjectType THEN Raise("AssertionError: Invalid object type detected in filter string.")
                ELSE IF modes = {} THEN Raise("AssertionError: Invalid filter mode detected")
                ELSE IF content = <<>> THEN Raise("AssertionError: Empty content detected in filter string.")
                ELSE IF \E k \in 1..Len(content) : content[k] \in char_blacklist
                     THEN Raise("AssertionError: Blacklisted characters detected in filter string content.")
                ELSE Return(JockeyFilter(object_type, FilterModeValues[Min(modes)].name,
                                         content))
        \* match.end(): the run of code characters ends before this position
        first(start) ==
            parse(start, CHOOSE j \in start..Len(filter_str) :
                            /\ \A k \in start..j : filter_str[k] \in CodeChars
                            /\ j = Len(filter_str) \/ filter_str[j + 1] \notin CodeChars)
    IN  IF Cardinality(filter_codes(filter_str)) # 1 THEN Raise("AssertionError: Incorrect number of filter codes detected.")
        ELSE first(Min(filter_codes(filter_str)))

\* RETRIEVAL_MAP.get(juju_object, None): the filter function, if there is one
RETRIEVAL_MAP(juju_object) ==
    CASE juju_object = "UNIT" -> "filter_units"
      [] juju_object = "MACHINE" -> "filter_machines"
      [] OTHER -> "None"

(***************************************************************************)
(* core.py: get_juju_status.  `os` is what the call finds outside the      *)
(* program: the file at the path `file` (Absent where there is none), the  *)
(* environment variable JUJU_MODEL, the cache entry of the model (Absent   *)
(* or Some entry with the cached status and its time), the output of       *)
(* `juju status --format json` and the time.  A text is Some(document),    *)
(* the JSON text of a status document, or Absent, a text that is no JSON.  *)
(* The result carries the calls made outside the program, in order, as     *)
(* `trace`, and the cache entry afterwards.                                *)
(***************************************************************************)
\* jockey.cache.new_cache_context, imported at core.py:15: the context of the
\* cache of the model, valid while the entry is not older than max_age
new_cache_context(model, max_age, entry, timestamp) ==
    [model |-> model, max_age |-> max_age,
     valid |-> \E cached \in entry : timestamp - cached.mtime <= max_age]

\* jockey.cache.load_cache, imported at core.py:15: the cached status
load_cache(cache_context, entry) == (CHOOSE cached \in entry : TRUE).status

\* jockey.cache.update_cache, imported at core.py:15: the entry that holds st
update_cache(cache_context, st, timestamp) == Some([status |-> st, mtime |-> timestamp])

\* get_juju_status that runs juju, and updates the cache, without a look at
\* the file or at the cache
get_juju_status_from_juju(file, model_name, cache_age, os) ==
    LET loads(text) ==
            IF text = Absent THEN Raise("JSONDecodeError")
            ELSE Return(CHOOSE document \in text : TRUE)
        fetch(st) ==
            [err |-> st.err, val |-> st.val,
             trace |-> <<"juju status", "update_cache">>,
             cache |-> IF st.err # NoErr THEN os.cache
                       ELSE update_cache(new_cache_context(model_name, cache_age, os.cache, os.now),
                                         st.val, os.now)]
    IN  fetch(loads(os.juju))

\* core.py:910-949
get_juju_status(file, model_name, cache_age, os) ==
    LET loads(text) ==
            IF text = Absent THEN Raise("JSONDecodeError")
            ELSE Return(CHOOSE document \in text : TRUE)
        result(r, trace, entry) ==
            [err |-> r.err, val |-> r.val, trace |-> trace, cache |-> entry]
        fetch(cache_context, st) ==
            IF st.err # NoErr
            THEN result(st, <<"new_cache_context", "juju status">>, os.cache)
            ELSE result(st, <<"new_cache_context", "juju status", "update_cache">>,
                        update_cache(cache_context, st.val, os.now))
        cached(cache_context) ==
            IF cache_context.valid
            THEN result(Return(load_cache(cache_context, os.cache)),
                        <<"new_cache_context", "load_cache">>, os.cache)
            ELSE fetch(cache_context, loads(os.juju))
        named(name) ==
            IF name = <<>>
            THEN result(Raise("AssertionError: You must provide a Juju model name."),
                        <<>>, os.cache)
            ELSE cached(new_cache_context(name, cache_age, os.cache, os.now))
    IN  IF file # <<>>
        THEN IF os.file = Absent THEN result(Raise("FileNotFoundError"), <<"open">>, os.cache)
             ELSE result(loads(CHOOSE text \in os.file : TRUE), <<"open">>, os.cache)
        ELSE named(IF model_name # <<>> THEN model_name
                   ELSE IF os.JUJU_MODEL = Absent THEN <<>>
                   ELSE CHOOSE name \in os.JUJU_MODEL : TRUE)

RECURSIVE parse_filter_strings(_, _)
\* core.py:1016, [parse_filter_string(filter_str) for filter_str in filter_strings]
parse_filter_strings(filter_strings, i) ==
    IF i > Len(filter_strings) THEN Return(<<>>)
    ELSE LET cons(head, rest) ==
                 IF head.err # NoErr THEN head
                 ELSE IF rest.err # NoErr THEN rest
                 ELSE Return(<<head.val>> \o rest.val)
         IN  cons(parse_filter_string(filter_strings[i]),
                  parse_filter_strings(filter_strings, i + 1))

\* query that parses the filter strings before it looks at the object type
query_filters_first(object_type, filter_strings, model, file, os) ==
    LET run(juju_object, parsed, st) ==
            LET failed(err) == [out |-> <<>>, err |-> err, trace |-> <<>>, cache |-> os.cache]
                filtered(yielded) ==
                    [out |-> yielded.out, err |-> yielded.err, trace |-> st.trace, cache |-> st.cache]
            IN  IF parsed.err # NoErr THEN failed(parsed.err)
                ELSE IF juju_object = NoObjectType
                     THEN failed("AssertionError: Object type not recognized.")
                ELSE IF RETRIEVAL_MAP(juju_object) = "None"
                     THEN failed("AssertionError: Querying is not yet supported.")
                ELSE filtered(IF st.err # NoErr THEN [out |-> <<>>, err |-> st.err]
                              ELSE IF RETRIEVAL_MAP(juju_object) = "filter_units"
                                   THEN filter_units(st.val, parsed.val)
                              ELSE filter_machines(st.val, parsed.val))
    IN  run(convert_object_abbreviation(object_type), parse_filter_strings(filter_strings, 1),
            get_juju_status(file, model, 300, os))

\* query that gets the Juju status before it looks at its arguments
query_status_first(object_type, filter_strings, model, file, os) ==
    LET run(juju_object, parsed, st) ==
            LET filtered(yielded) ==
                    [out |-> yielded.out, err |-> yielded.err, trace |-> st.trace, cache |-> st.cache]
            IN  filtered(IF st.err # NoErr THEN [out |-> <<>>, err |-> st.err]
                         ELSE IF juju_object = NoObjectType
                              THEN [out |-> <<>>, err |-> "AssertionError: Object type not recognized."]
                         ELSE IF RETRIEVAL_MAP(juju_object) = "None"
                              THEN [out |-> <<>>, err |-> "AssertionError: Querying is not yet supported."]
                         ELSE IF parsed.err # NoErr THEN [out |-> <<>>, err |-> parsed.err]
                         ELSE IF RETRIEVAL_MAP(juju_object) = "filter_units"
                              THEN filter_units(st.val, parsed.val)
                         ELSE filter_machines(st.val, parsed.val))
    IN  run(convert_object_abbreviation(object_type), parse_filter_strings(filter_strings, 1),
            get_juju_status(file, model, 300, os))

\* core.py:982-1021; st is what get_juju_status gives at core.py:1019 (it is
\* called with the default cache_age, and only where the asserts and the
\* parsing of the filter strings have passed); the result carries its trace
\* and its cache entry
query(object_type, filter_strings, model, file, os) ==
    LET run(juju_object, parsed, st) ==
            LET failed(err) == [out |-> <<>>, err |-> err, trace |-> <<>>, cache |-> os.cache]
                filtered(yielded) ==
                    [out |-> yielded.out, err |-> yielded.err, trace |-> st.trace, cache |-> st.cache]
            IN  IF juju_object = NoObjectType
                THEN failed("AssertionError: Object type not recognized.")
                ELSE IF RETRIEVAL_MAP(juju_object) = "None"
                     THEN failed("AssertionError: Querying is not yet supported.")
                ELSE IF parsed.err # NoErr THEN failed(parsed.err)
                ELSE filtered(IF st.err # NoErr THEN [out |-> <<>>, err |-> st.err]
                              ELSE IF RETRIEVAL_MAP(juju_object) = "filter_units"
                                   THEN filter_units(st.val, parsed.val)
                              ELSE filter_machines(st.val, parsed.val))
    IN  run(convert_object_abbreviation(object_type), parse_filter_strings(filter_strings, 1),
            get_juju_status(file, model, 300, os))

(***************************************************************************)
(* The legacy front end as a state machine: an abbreviation is converted,  *)
(* a filter string is parsed, or a query is run on the status document.    *)
(***************************************************************************)
Aliases == UNION {Range(ObjectTypeValues[i].value) : i \in 1..Len(ObjectTypeValues)}

\* Every alias as written, in capital letters and with a capital first
\* letter, every alias with a letter added, and strings that are no alias
Abbreviations ==
    LET upper(v) ==
            [i \in 1..Len(v) |->
                IF \E k \in 1..Len(LowerCase) : LowerCase[k] = v[i]
                THEN UpperCase[CHOOSE k \in 1..Len(LowerCase) : LowerCase[k] = v[i]]
                ELSE v[i]]
    IN  Aliases \cup {upper(a) : a \in Aliases}
        \cup {upper(SubSeq(a, 1, 1)) \o SubSeq(a, 2, Len(a)) : a \in Aliases}
        \cup {a \o <<"s">> : a \in Aliases} \cup {<<"x">> \o a : a \in Aliases}
        \cup {<<>>, <<"x">>, <<" ">>}

\* Filter strings prefix + code + content, in which the code is the first run
\* of code characters of the string (or the string has none)
FilterStrings ==
    {a \in [prefix : Aliases \cup {<<>>, <<"x">>, <<"U">>, <<"u", "n", "i", "t", "z">>},
            code : {<<>>, <<"=">>, <<"~">>, <<"^", "=">>, <<"^", "~">>, <<"=", "=">>,
                    <<"^">>, <<"~", "=">>, <<"=", "^">>},
            content : {<<>>, <<"p">>, <<"p", "/", "0">>, <<"l", "x", "d">>,
                       <<"p", "_", "0">>, <<"a", ":", "b">>, <<"a", ";", "b">>,
                       <<"a", ",", "b">>, <<"a", "\\", "b">>, <<"a", "\t", "b">>,
                       <<"a", "\n", "b">>, <<"a", "=", "b">>, <<"p", "^">>}] :
        a.code = <<>> => \A k \in 1..Len(a.content) : a.content[k] \notin CodeChars}

\* The arguments of query: kinds that resolve to each outcome, and lists of
\* filter strings of which some do not parse
Queries ==
    [object_type : {<<"u">>, <<"U", "n", "i", "t">>, <<"m">>,
                    <<"M", "A", "C", "H", "I", "N", "E", "S">>, <<"a", "p", "p">>,
                    <<"a", "z">>, <<"x">>, <<>>,
                    <<"m", "a", "c", "h", "i", "n", "e", ".", "h", "a", "r", "d", "w", "a", "r", "e">>},
     filter_strings : SeqsUpTo({<<"a", "=", "p">>, <<"m", "~", "l", "x", "d">>,
                                <<"u", "^", "=", "p", "/", "0">>, <<"b", "a", "d">>,
                                <<"x", "=", "1">>}, MaxFilters)]

InitQuery ==
    /\ status \in {EmptyStatus, JujuStatus(DefaultApplications, DefaultMachines)}
    /\ filters = <<>>
    /\ batch = <<>>
    /\ expression = <<>>
    /\ unit = None
    /\ args = NoArgs
    /\ pc = "start"
    /\ ret = <<>>
    /\ cache \in {Absent, Some([status |-> status, mtime |-> 0])}
    /\ now \in {0, 301}

ConvertObjectAbbreviation ==
    /\ pc = "start"
    /\ \E abbrev \in Abbreviations :
        /\ args' = [abbrev |-> abbrev]
        /\ ret' = convert_object_abbreviation(abbrev)
    /\ pc' = "convert_object_abbreviation"
    /\ UNCHANGED <<status, filters, batch, expression, unit, cache, now>>

ParseFilterString ==
    /\ pc = "start"
    /\ \E a \in FilterStrings :
        /\ args' = a
        /\ ret' = parse_filter_string(a.prefix \o a.code \o a.content)
    /\ pc' = "parse_filter_string"
    /\ UNCHANGED <<status, filters, batch, expression, unit, cache, now>>

\* query on a model of which `status` is the status: the file, if one is
\* given, the cache entry, if there is one, and juju hold `status`
Query ==
    /\ pc = "start"
    /\ \E a \in Queries, file \in {<<>>, <<"f">>} :
        /\ args' = [object_type |-> a.object_type, filter_strings |-> a.filter_strings,
                    model |-> <<"m">>, file |-> file,
                    os |-> [file |-> Some(Some(status)), JUJU_MODEL |-> Absent,
                            juju |-> Some(status), cache |-> cache, now |-> now]]
        /\ LET run(result) ==
                    /\ ret' = [out |-> result.out, err |-> result.err, trace |-> result.trace]
                    /\ cache' = result.cache
           IN  run(query(a.object_type, a.filter_strings, <<"m">>, file, args'.os))
    /\ pc' = "query"
    /\ UNCHANGED <<status, filters, batch, expression, unit, now>>

\* get_juju_status with the default cache_age; the cache entry, if there is
\* one, holds `status`
GetJujuStatus ==
    /\ pc = "start"
    /\ \E file \in {<<>>, <<"f">>}, model_name \in {<<>>, <<"m">>}, JUJU_MODEL \in {Absent, Some(<<"m">>)},
          text \in {Absent, Some(EmptyStatus), Some(JujuStatus(DefaultApplications, DefaultMachines))},
          juju \in {Absent, Some(EmptyStatus), Some(JujuStatus(DefaultApplications, DefaultMachines))},
          exists \in BOOLEAN :
        LET run(result) ==
                /\ ret' = [err |-> result.err, val |-> result.val, trace |-> result.trace]
                /\ cache' = result.cache
            call(os) ==
                /\ args' = [file |-> file, model_name |-> model_name, os |-> os]
                /\ run(get_juju_status(file, model_name, 300, os))
        IN  call([file |-> IF exists THEN Some(text) ELSE Absent, JUJU_MODEL |-> JUJU_MODEL,
                  juju |-> juju, cache |-> cache, now |-> now])
    /\ pc' = "get_juju_status"
    /\ UNCHANGED <<status, filters, batch, expression, unit, now>>

NextQuery ==
    \/ ConvertObjectAbbreviation
    \/ ParseFilterString
    \/ Query
    \/ GetJujuStatus

SpecQuery == InitQuery /\ [][NextQuery]_vars

\* The string v is the alias a in some letter case
IsAliasInAnyCase(v, a) ==
    /\ Len(v) = Len(a)
    /\ \A k \in 1..Len(a) :
        v[k] = a[k] \/ \E j \in 1..Len(UpperCase) : UpperCase[j] = v[k] /\ LowerCase[j] = a[k]

\* The names of the object types that have v as an alias (in any letter case)
KindsOf(v) ==
    {ObjectTypeValues[i].name : i \in {j \in 1..Len(ObjectTypeValues) :
        \E a \in Range(ObjectTypeValues[j].value) : IsAliasInAnyCase(v, a)}}

\* C17: convert_object_abbreviation maps every alias of every object type, in
\* any letter case, to that object type, the alias sets of two object types
\* are disjoint, and every other string is mapped to None.
C17_AbbreviationTable ==
    pc = "convert_object_abbreviation" =>
        /\ Cardinality(KindsOf(args.abbrev)) <= 1
        /\ \A kind \in KindsOf(args.abbrev) : ret = kind
        /\ KindsOf(args.abbrev) = {} => ret = NoObjectType

\* An alias that is not written in small letters is converted to its type
C17_Witness ==
    /\ pc = "convert_object_abbreviation"
    /\ args.abbrev \notin Aliases
    /\ KindsOf(args.abbrev) = {"AVAILABILITY_ZONE"}
    /\ ret = "AVAILABILITY_ZONE"

\* The failed asserts of parse_filter_string
ParseErrors ==
    {"AssertionError: Incorrect number of filter codes detected.",
     "AssertionError: Invalid object type detected in filter string.",
     "AssertionError: Invalid filter mode detected",
     "AssertionError: Empty content detected in filter string.",
     "AssertionError: Blacklisted characters detected in filter string content."}

CodeFree(v) == \A k \in 1..Len(v) : v[k] \notin {"=", "^", "~"}

\* C18: for every alias a, every operator code c of =, ~, ^=, ^~ and every
\* non-empty content s without a blacklisted character and without =, ^, ~,
\* parse_filter_string(a + c + s) returns the filter with the object type of
\* a, the mode of c and the content s.
C18_FilterStringRoundTrip ==
    (/\ pc = "parse_filter_string"
     /\ args.prefix \in Aliases
     /\ args.code \in {<<"=">>, <<"~">>, <<"^", "=">>, <<"^", "~">>}
     /\ args.content # <<>> /\ CodeFree(args.content)
     /\ \A k \in 1..Len(args.content) :
            args.content[k] \notin {"_", ":", ";", "\\", "\t", "\n", ","}) =>
        /\ ret.err = NoErr
        /\ ret.val.obj_type \in KindsOf(args.prefix)
        /\ ret.val.mode =
            (CASE args.code = <<"=">> -> "EQUALS" [] args.code = <<"~">> -> "CONTAINS"
               [] args.code = <<"^", "=">> -> "NOT_EQUALS"
               [] args.code = <<"^", "~">> -> "NOT_CONTAINS")
        /\ ret.val.content = args.content

\* An alias that holds a blacklisted character itself, with a negative code
C18_Witness ==
    /\ pc = "parse_filter_string"
    /\ args.prefix = <<"a", "v", "a", "i", "l", "a", "b", "i", "l", "i", "t", "y", "_",
                       "z", "o", "n", "e">>
    /\ args.code = <<"^", "~">>
    /\ args.content = <<"p", "/", "0">>
    /\ ret = Return(JockeyFilter("AVAILABILITY_ZONE", "NOT_CONTAINS", <<"p", "/", "0">>))

\* C19: parse_filter_string fails with one of its parse errors and returns no
\* filter for every string with no operator code or more than one, with a
\* prefix that is not an alias, with a code that is not one of the four
\* modes, with empty content or with a blacklisted character in the content.
C19_FilterStringRejected ==
    (/\ pc = "parse_filter_string"
     /\ \/ args.code = <<>>
        \/ ~CodeFree(args.content)
        \/ KindsOf(args.prefix) = {}
        \/ args.code \notin {<<"=">>, <<"~">>, <<"^", "=">>, <<"^", "~">>}
        \/ args.content = <<>>
        \/ \E k \in 1..Len(args.content) :
            args.content[k] \in {"_", ":", ";", "\\", "\t", "\n", ","}) =>
        ret.err \in ParseErrors

\* A string that is well formed but for a comma in its content
C19_Witness ==
    /\ pc = "parse_filter_string"
    /\ args.prefix = <<"a">>
    /\ args.code = <<"=">>
    /\ args.content = <<"a", ",", "b">>
    /\ ret.err = "AssertionError: Blacklisted characters detected in filter string content."

\* The filter strings of the query all parse; the filters they parse into
AllParse == \A i \in 1..Len(args.filter_strings) :
                parse_filter_string(args.filter_strings[i]).err = NoErr

ParsedFilters ==
    [i \in 1..Len(args.filter_strings) |-> parse_filter_string(args.filter_strings[i]).val]

\* C16: query resolves the entity kind first: an unresolvable kind fails with
\* the unknown-object-type error and a kind that resolves to charm,
\* application, ip, hostname or availability zone with the unsupported one,
\* whatever the filter strings are; only unit and machine reach filtering,
\* with filter_units and filter_machines.
C16_KindResolvedFirst ==
    pc = "query" =>
        /\ KindsOf(args.object_type) = {} =>
                ret.err = "AssertionError: Object type not recognized."
        /\ KindsOf(args.object_type) \cap
                {"CHARM", "APP", "IP", "HOSTNAME", "AVAILABILITY_ZONE"} # {} =>
                ret.err = "AssertionError: Querying is not yet supported."
        /\ KindsOf(args.object_type) \in {{"UNIT"}, {"MACHINE"}} =>
            /\ ~AllParse => ret.err \in ParseErrors
            /\ (AllParse /\ KindsOf(args.object_type) = {"UNIT"}) =>
                    [out |-> ret.out, err |-> ret.err] = filter_units(status, ParsedFilters)
            /\ (AllParse /\ KindsOf(args.object_type) = {"MACHINE"}) =>
                    [out |-> ret.out, err |-> ret.err] = filter_machines(status, ParsedFilters)

\* An unknown kind together with a filter string that does not parse
C16_Witness ==
    /\ pc = "query"
    /\ KindsOf(args.object_type) = {}
    /\ ~AllParse
    /\ ret.err = "AssertionError: Object type not recognized."

(***************************************************************************)
(* The machine resolvers as a state machine: a status document and a       *)
(* machine id are given, then the hostname, the addresses or the           *)
(* availability zone are resolved.                                         *)
(***************************************************************************)
InitMachine ==
    /\ status \in MachineStatuses \cup FilterStatuses
    /\ filters = <<>>
    /\ batch = <<>>
    /\ expression = <<>>
    /\ unit = None
    /\ args \in [machine : {M0, M1} \cup {ContainerId(parent, i) :
                                parent \in {M0, M1}, i \in 0..(MaxContainers - 1)}]
    /\ pc = "start"
    /\ ret = <<>>
    /\ cache = None
    /\ now = 0

MachineToHostname ==
    /\ pc = "start"
    /\ pc' = "machine_to_hostname"
    /\ ret' = machine_to_hostname(status, args.machine)
    /\ UNCHANGED <<status, filters, batch, expression, unit, args, cache, now>>

MachineToIps ==
    /\ pc = "start"
    /\ pc' = "machine_to_ips"
    /\ ret' = machine_to_ips(status, args.machine)
    /\ UNCHANGED <<status, filters, batch, expression, unit, args, cache, now>>

MachineToAvailabilityZone ==
    /\ pc = "start"
    /\ pc' = "machine_to_availability_zone"
    /\ ret' = machine_to_availability_zone(status, args.machine)
    /\ UNCHANGED <<status, filters, batch, expression, unit, args, cache, now>>

NextMachine ==
    \/ MachineToHostname
    \/ MachineToIps
    \/ MachineToAvailabilityZone

SpecMachine == InitMachine /\ [][NextMachine]_vars

\* The id holds the container marker /lxd/
IsContainerId(machine) ==
    \E k \in 1..(Len(machine) - 4) : SubSeq(machine, k, k + 4) = <<"/", "l", "x", "d", "/">>

\* The id of the parent machine: the part before the first slash
ParentOf(machine) ==
    SubSeq(machine, 1, Min({k \in 1..Len(machine) : machine[k] = "/"}) - 1)

\* The top-level records of the status document with the given id
TopLevelRecords(id) ==
    {status.machines[i][2] : i \in {j \in 1..Len(status.machines) : status.machines[j][1] = id}}

\* The record that the machine id stands for: the entry nested in the
\* containers map of the parent for a container id, the top-level record
\* otherwise; empty when the document has no such record
RecordsOf(machine) ==
    IF IsContainerId(machine)
    THEN UNION {{parent.containers[i][2] :
                    i \in {j \in 1..Len(parent.containers) : parent.containers[j][1] = machine}} :
                parent \in {top \in TopLevelRecords(ParentOf(machine)) : Has(top, "containers")}}
    ELSE TopLevelRecords(machine)

\* C20: for a machine id that denotes a container, machine_to_hostname and
\* machine_to_ips return the hostname and the addresses of the container
\* record nested in the containers map of its parent, never the parent's
\* (no such record: KeyError); for any other id they return the values of
\* the top-level machine record.
C20_ContainerRecordResolved ==
    pc \in {"machine_to_hostname", "machine_to_ips"} =>
        LET attribute == IF pc = "machine_to_hostname" THEN "hostname" ELSE "ip-addresses"
        IN  /\ \A rec \in RecordsOf(args.machine) :
                  Has(rec, attribute) => ret = Return(rec[attribute])
            /\ RecordsOf(args.machine) = {} => ret.err = "KeyError"

\* The hostname of container 0/lxd/0 is resolved, and differs from its parent's
C20_Witness ==
    /\ pc = "machine_to_hostname"
    /\ args.machine = C00
    /\ ret = Return(HostName(C00))
    /\ \E parent \in TopLevelRecords(M0) :
            Has(parent, "hostname") /\ parent.hostname # ret.val

\* The tokens of the hardware string of the top-level machine `id`
\* (whitespace separates the tokens)
HardwareEntries(id) ==
    UNION {{split_ws(top.hardware)} : top \in {t \in TopLevelRecords(id) : Has(t, "hardware")}}

\* The token has the form key=value, with one equals sign
WellFormedToken(token) == Cardinality({k \in 1..Len(token) : token[k] = "="}) = 1

\* The token is availability-zone=<value>, with no equals sign in the value
ZoneToken(token) ==
    /\ Len(token) > Len(AZ_KEY)
    /\ SubSeq(token, 1, Len(AZ_KEY) + 1) = AZ_KEY \o <<"=">>
    /\ WellFormedToken(token)

\* C21: machine_to_availability_zone returns, for a top-level machine, the
\* value of the availability-zone token of its hardware string (made of
\* key=value tokens), or None when the string has no such token; for a
\* container it returns exactly the result for its parent machine.
C21_ZoneOfHardware ==
    pc = "machine_to_availability_zone" =>
        /\ ~IsContainerId(args.machine) =>
              \A entries \in HardwareEntries(args.machine) :
                (\A k \in 1..Len(entries) : WellFormedToken(entries[k])) =>
                    IF \E k \in 1..Len(entries) : ZoneToken(entries[k])
                    THEN /\ ret.err = NoErr
                         /\ \E k \in 1..Len(entries) :
                                /\ ZoneToken(entries[k])
                                /\ entries[k] = AZ_KEY \o <<"=">> \o ret.val
                    ELSE ret = Return(None)
        /\ IsContainerId(args.machine) =>
              ret = machine_to_availability_zone(status, ParentOf(args.machine))

\* The zone of container 0/lxd/0 is the zone z1 of its parent
C21_Witness ==
    /\ pc = "machine_to_availability_zone"
    /\ args.machine = C00
    /\ HardwareEntries(M0) = {<<HW_NOAZ, AZ_KEY \o <<"=">> \o Z1>>}
    /\ ret = Return(Z1)

\* C24: machine_to_availability_zone signals no error on a hardware string
\* that contains malformed tokens: it returns None, or the availability zone
\* when a well-formed availability-zone token is present.
C24_MalformedTokensIgnored ==
    (pc = "machine_to_availability_zone" /\ ~IsContainerId(args.machine)) =>
        \A entries \in HardwareEntries(args.machine) :
            (\E k \in 1..Len(entries) : ~WellFormedToken(entries[k])) =>
                /\ ret.err = NoErr
                /\ IF \E k \in 1..Len(entries) : ZoneToken(entries[k])
                   THEN \E k \in 1..Len(entries) :
                            ZoneToken(entries[k]) /\ entries[k] = AZ_KEY \o <<"=">> \o ret.val
                   ELSE ret.val = None

(***************************************************************************)
(* The units of a machine as a state machine: a status document is given,  *)
(* then machine_to_units runs for one of the machines of get_machines.     *)
(***************************************************************************)
MachineToUnits ==
    /\ pc = "start"
    /\ \E machine \in Range(get_machines(status)) :
        /\ args' = [machine |-> machine]
        /\ ret' = machine_to_units(status, machine)
    /\ pc' = "machine_to_units"
    /\ UNCHANGED <<status, filters, batch, expression, unit, cache, now>>

NextUnits == MachineToUnits

SpecUnits == InitGraph /\ [][NextUnits]_vars

\* C27: for every machine id m of get_machines and every unit name u of
\* get_units, u is yielded by machine_to_units(m) if and only if
\* unit_to_machine(u) equals m (on documents whose subordinates belong to
\* applications that name the principal's application in `subordinate-to`).
C27_MachineToUnitsInverse ==
    (pc = "machine_to_units" /\ Linked(status)) =>
        /\ ret.err = NoErr
        /\ \A u \in Range(get_units(status)) :
              (u \in Range(ret.val)) <=> (unit_to_machine(status, u) = Return(args.machine))

RECURSIVE IsSubsequence(_, _)
\* The sequence a is b with some of its members left out
IsSubsequence(a, b) ==
    IF a = <<>> THEN TRUE
    ELSE IF b = <<>> THEN FALSE
    ELSE IF Head(a) = Head(b) THEN IsSubsequence(Tail(a), Tail(b))
    ELSE IsSubsequence(a, Tail(b))

\* The run of the filter function of the state on the list without its last
\* filter
WithoutLastFilter ==
    IF pc = "filter_units" THEN filter_units(status, SubSeq(filters, 1, Len(filters) - 1))
    ELSE filter_machines(status, SubSeq(filters, 1, Len(filters) - 1))

\* C28: adding a filter never adds results: every name that filter_units
\* (filter_machines) returns for the filter list F followed by f is returned
\* for F as well, and each result is a subsequence of get_units
\* (get_machines) in enumeration order.
C28_AddingFilterNeverAdds ==
    (pc \in {"filter_units", "filter_machines"} /\ filters # <<>>) =>
        LET monotone(less, enumeration) ==
                /\ Range(ret.out) \subseteq Range(less.out)
                /\ IsSubsequence(ret.out, less.out)
                /\ IsSubsequence(less.out, enumeration)
        IN  monotone(WithoutLastFilter,
                     IF pc = "filter_units" THEN get_units(status) ELSE get_machines(status))

RECURSIVE FieldValue(_, _)
\* The value at the end of the path on an entity that holds every segment
FieldValue(segments, data) ==
    IF Tail(segments) = <<>> THEN Get(data.dict, Head(segments))
    ELSE FieldValue(Tail(segments), Get(data.dict, Head(segments)))

\* The string is made of decimal digits
IsNumeric(string) ==
    /\ string # <<>>
    /\ \A k \in 1..Len(string) :
            string[k] \in {"0", "1", "2", "3", "4", "5", "6", "7", "8", "9"}

\* C29: when the query of an EQUALS, NOT_EQUALS or ordering predicate cannot
\* be converted into the type of the resolved field value (a non-numeric
\* query against an integer, any query against null), the predicate raises
\* an error; it does not evaluate to false.
C29_UnconvertibleQueryRaises ==
    (/\ pc = "wrapped_filter_action"
     /\ args.mode \in {"EQUALS", "NOT_EQUALS", "GREATER_THAN", "GREATER_THAN_OR_EQUALS",
                       "LESS_THAN", "LESS_THAN_OR_EQUALS"}
     /\ ~FieldAbsent) =>
        LET raises(value) ==
                /\ (type(value) = "int" /\ ~IsNumeric(args.query)) => ret.err = "ValueError"
                /\ type(value) = "NoneType" => ret.err = "TypeError"
                /\ (type(value) = "int" /\ IsNumeric(args.query)) => ret.err = NoErr
        IN  raises(FieldValue(split(args.field, <<".">>), args.item))

\* An ordering predicate with a query of letters on an integer field
C29_Witness ==
    /\ pc = "wrapped_filter_action"
    /\ args.mode = "LESS_THAN"
    /\ args.field = <<"n", ".", "b">>
    /\ ~FieldAbsent
    /\ FieldValue(split(args.field, <<".">>), args.item) = Integer(9)
    /\ args.query = <<"x">>
    /\ ret.err = "ValueError"

\* C26: get_juju_status: when a file is given the status is read from that
\* file, the cache is neither read nor written and no juju command is run;
\* otherwise, when the cache of the model is still valid, the cached status is
\* returned without a run of juju; otherwise juju is run, the cache is
\* updated with the fetched status and that same status is returned.
C26_StatusFromFileCacheOrJuju ==
    pc = "get_juju_status" =>
        LET returns(document) == ret.err = NoErr /\ ret.val = document
            named == args.model_name # <<>> \/ args.os.JUJU_MODEL # Absent
            valid == \E cached \in args.os.cache : now - cached.mtime <= 300
        IN  /\ args.file # <<>> =>
                /\ ret.trace = <<"open">>
                /\ cache = args.os.cache
                /\ \A text \in args.os.file : \A document \in text : returns(document)
            /\ (args.file = <<>> /\ named /\ valid) =>
                /\ "juju status" \notin Range(ret.trace)
                /\ \A cached \in args.os.cache : returns(cached.status)
            /\ (args.file = <<>> /\ named /\ ~valid) =>
                /\ "juju status" \in Range(ret.trace)
                /\ \A document \in args.os.juju :
                    /\ returns(document)
                    /\ \E cached \in cache : cached.status = document

\* The cache entry of the model is too old: juju is run and its status, which
\* is not the cached one, is returned and cached
C26_Witness ==
    /\ pc = "get_juju_status"
    /\ args.file = <<>>
    /\ args.model_name = <<"m">>
    /\ \E cached \in args.os.cache : now - cached.mtime > 300 /\ Some(cached.status) # args.os.juju
    /\ ret.err = NoErr
    /\ Some(ret.val) = args.os.juju
    /\ \E cached \in cache : cached.status = ret.val /\ cached.mtime = now

\* C23: when the entity kind is unknown or unsupported, or a filter string of
\* the list does not parse, query raises before the status document is
\* retrieved (no status file is read, the cache is neither read nor written,
\* no juju command is run) and before any entity is evaluated: it returns no
\* name, also where other filters of the list are well formed.
C23_RaisedBeforeRetrieval ==
    (/\ pc = "query"
     /\ KindsOf(args.object_type) \notin {{"UNIT"}, {"MACHINE"}} \/ ~AllParse) =>
        /\ ret.err # NoErr
        /\ ret.trace = <<>>
        /\ cache = args.os.cache
        /\ ret.out = <<>>

\* A unit query without a file and without a cache entry, so that juju would
\* be run, whose first filter string parses and whose second does not
C23_Witness ==
    /\ pc = "query"
    /\ KindsOf(args.object_type) = {"UNIT"}
    /\ args.file = <<>>
    /\ args.os.cache = Absent
    /\ Len(args.filter_strings) = 2
    /\ parse_filter_string(args.filter_strings[1]).err = NoErr
    /\ parse_filter_string(args.filter_strings[2]).err # NoErr
    /\ ret.err \in ParseErrors
    /\ ret.trace = <<>>
    /\ cache = Absent

\* C22: when OBJECT is a field projection (an entity kind followed by a field
\* path, here machine.hardware), the query prints one value for every
\* matching entity, and an entity without the projected field is printed as
\* the null display value None; the query does not abort.
C22_ProjectionPrintsOneValuePerEntity ==
    (/\ pc = "query"
     /\ args.object_type = <<"m", "a", "c", "h", "i", "n", "e", ".",
                             "h", "a", "r", "d", "w", "a", "r", "e">>
     /\ status.machines # <<>>
     /\ AllParse) =>
        LET printed(matching) ==
                matching.err = NoErr =>
                    /\ ret.err = NoErr
                    /\ Len(ret.out) = Len(matching.out)
                    /\ \A i \in 1..Len(matching.out) : \A record \in RecordsOf(matching.out[i]) :
                        ret.out[i] = IF Has(record, "hardware") THEN record.hardware
                                     ELSE <<"N", "o", "n", "e">>
        IN  printed(filter_machines(status, ParsedFilters))

(***************************************************************************)
(* cache.py: FileCache.  The variable `cache` is a FileCache object with   *)
(* the entry file of one reference in its base directory: Absent where    *)
(* the file does not exist, else Some file, with its bytes and its         *)
(* modification time.  The variable `now` is datetime.now().timestamp(),   *)
(* in seconds.  An Optional[float] is Absent (None) or Some number.        *)
(***************************************************************************)
DEFAULT_CACHE_MAX_AGE == 300

\* The clock of the model stops after so many maximum ages
MaxAges == 2

\* JSON data as Python objects: what a callback computes and write stores
JsonData ==
    {Null, Mapping(<<>>), Mapping(<<<<<<"a", "b", "c">>, Integer(123)>>>>),
     Mapping(<<<<<<"a">>, Str(<<"x">>)>>, <<<<"b">>, Mapping(<<<<<<"c">>, Bool(TRUE)>>>>)>>>>)}

RECURSIVE json_dumps(_)
\* orjson.dumps(data): the bytes of the JSON text, without white space
json_dumps(data) ==
    IF type(data) = "NoneType" THEN <<"n", "u", "l", "l">>
    ELSE IF type(data) = "bool"
         THEN (IF data.bool THEN <<"t", "r", "u", "e">> ELSE <<"f", "a", "l", "s", "e">>)
    ELSE IF type(data) = "int" THEN decimal(data.int)
    ELSE IF type(data) = "str" THEN <<"\"">> \o data.str \o <<"\"">>
    ELSE LET RECURSIVE members(_)
             members(i) ==
                 IF i > Len(data.dict) THEN <<>>
                 ELSE (IF i > 1 THEN <<",">> ELSE <<>>)
                      \o <<"\"">> \o data.dict[i][1] \o <<"\"", ":">>
                      \o json_dumps(data.dict[i][2]) \o members(i + 1)
         IN  <<"{">> \o members(1) \o <<"}">>

\* orjson.loads(content): the data of which content is the JSON text
json_loads(content) ==
    IF \E data \in JsonData : json_dumps(data) = content
    THEN Return(CHOOSE data \in JsonData : json_dumps(data) = content)
    ELSE Raise("JSONDecodeError")

\* cache.py:68-70, FileCache(base_path, max_age) on a directory with the entry
FileCache(max_age, entry) ==
    [max_age |-> IF max_age \notin {Absent, Some(0)} THEN CHOOSE seconds \in max_age : TRUE
                 ELSE DEFAULT_CACHE_MAX_AGE,
     entry |-> entry]

\* cache.py:111
has(self) == self.entry # Absent

\* cache.py:120-121
read(self) ==
    IF ~has(self) THEN Raise("FileNotFoundError") ELSE json_loads((CHOOSE file \in self.entry : TRUE).content)

\* cache.py:130-131, the file after write(ref, data) at the time `timestamp`
write(self, data, timestamp) ==
    [self EXCEPT !.entry = Some([content |-> json_dumps(data), mtime |-> timestamp])]

\* cache.py:139, the FileCache after delete(ref)
delete(self) == [self EXCEPT !.entry = Absent]

\* cache.py:167
last_modified(self) == (CHOOSE file \in self.entry : TRUE).mtime

\* cache.py:177
age(self, timestamp) == timestamp - last_modified(self)

\* cache.py:187
is_expired(self, max_age, timestamp) ==
    \/ ~has(self)
    \/ age(self, timestamp) >
           (IF max_age \notin {Absent, Some(0)} THEN CHOOSE seconds \in max_age : TRUE
            ELSE IF self.max_age # 0 THEN self.max_age ELSE 300)

\* entry_or that returns what the callback computes and does not write it
entry_or_unwritten(self, cb, timestamp) ==
    IF is_expired(self, Absent, timestamp)
    THEN [err |-> cb.err, val |-> cb.val, calls |-> 1, cache |-> self]
    ELSE LET stored(data) == [err |-> data.err, val |-> data.val, calls |-> 0, cache |-> self]
         IN  stored(read(self))

\* entry_or that opens the entry file for writing before it calls the callback
entry_or_opened_first(self, cb, timestamp) ==
    IF is_expired(self, Absent, timestamp)
    THEN IF cb.err # NoErr
         THEN [err |-> cb.err, val |-> None, calls |-> 1,
               cache |-> [self EXCEPT !.entry = Some([content |-> <<>>, mtime |-> timestamp])]]
         ELSE [err |-> NoErr, val |-> cb.val, calls |-> 1,
               cache |-> write(self, cb.val, timestamp)]
    ELSE LET stored(data) == [err |-> data.err, val |-> data.val, calls |-> 0, cache |-> self]
         IN  stored(read(self))

\* cache.py:153-158, entry_or(ref, cb) at the time `timestamp`; cb is what
\* the callback does when it is called: Return(data) or Raise(error).
\* `calls` counts the calls of cb and `cache` is the FileCache afterwards.
entry_or(self, cb, timestamp) ==
    IF is_expired(self, Absent, timestamp)
    THEN IF cb.err # NoErr
         THEN [err |-> cb.err, val |-> None, calls |-> 1, cache |-> self]
         ELSE [err |-> NoErr, val |-> cb.val, calls |-> 1,
               cache |-> write(self, cb.val, timestamp)]
    ELSE LET stored(data) == [err |-> data.err, val |-> data.val, calls |-> 0, cache |-> self]
         IN  stored(read(self))

InitCache ==
    /\ status = EmptyStatus
    /\ filters = <<>>
    /\ batch = <<>>
    /\ expression = <<>>
    /\ unit = None
    /\ args = NoArgs
    /\ pc = "start"
    /\ ret = <<>>
    /\ cache \in {FileCache(max_age, Absent) : max_age \in {Absent, Some(0), Some(1)}}
    /\ now = 0

\* Time passes: the maximum age of the cache, or a second more
Sleep ==
    /\ \E seconds \in {cache.max_age, cache.max_age + 1} :
        /\ now + seconds <= MaxAges * (cache.max_age + 1)
        /\ now' = now + seconds
        /\ args' = [seconds |-> seconds]
    /\ pc' = "sleep"
    /\ ret' = <<>>
    /\ UNCHANGED <<status, filters, batch, expression, unit, cache>>

Write ==
    /\ \E data \in JsonData :
        /\ args' = [data |-> data]
        /\ cache' = write(cache, data, now)
    /\ pc' = "write"
    /\ ret' = Return(None)
    /\ UNCHANGED <<status, filters, batch, expression, unit, now>>

Read ==
    /\ args' = NoArgs
    /\ ret' = read(cache)
    /\ pc' = "read"
    /\ UNCHANGED <<status, filters, batch, expression, unit, cache, now>>

Delete ==
    /\ args' = NoArgs
    /\ IF has(cache)
       THEN cache' = delete(cache) /\ ret' = Return(None)
       ELSE cache' = cache /\ ret' = Raise("FileNotFoundError")
    /\ pc' = "delete"
    /\ UNCHANGED <<status, filters, batch, expression, unit, now>>

\* entry_or(ref, cb); `args` keeps the entry file as it was before the call
EntryOr ==
    /\ \E data \in JsonData, raises \in BOOLEAN :
        LET run(cb, result) ==
                /\ args' = [cb |-> cb, entry |-> cache.entry]
                /\ cache' = result.cache
                /\ ret' = [err |-> result.err, val |-> result.val, calls |-> result.calls]
            call(cb) == run(cb, entry_or(cache, cb, now))
        IN  call(IF raises THEN Raise("CloudException") ELSE Return(data))
    /\ pc' = "entry_or"
    /\ UNCHANGED <<status, filters, batch, expression, unit, now>>

NextCache ==
    \/ Sleep
    \/ Write
    \/ Read
    \/ Delete
    \/ EntryOr

SpecCache == InitCache /\ [][NextCache]_vars

\* C25: FileCache.entry_or(ref, cb): when the entry is missing or expired
\* (older than the maximum age), cb is called exactly once, its result is
\* written to the entry and returned, and a following read(ref) returns that
\* result; when the entry exists and is not expired, cb is not called, the
\* stored data is returned and the entry is left unchanged.
C25_EntryOrComputesOrReads ==
    [][pc' = "entry_or" =>
        LET returns(result, data) == result.err = NoErr /\ result.val = data
        IN  IF \/ cache.entry = Absent
               \/ \E file \in cache.entry : now - file.mtime > cache.max_age
            THEN /\ ret'.calls = 1
                 /\ args'.cb.err = NoErr =>
                     /\ returns(ret', args'.cb.val)
                     /\ cache'.entry # Absent
                     /\ returns(read(cache'), args'.cb.val)
            ELSE /\ ret'.calls = 0
                 /\ returns(ret', read(cache).val)
                 /\ cache' = cache]_vars

\* An expired entry is computed again: the callback is called once and a
\* read returns what it computed, which is not what the entry held
C25_Witness ==
    /\ pc = "entry_or"
    /\ \E file \in args.entry : now - file.mtime > cache.max_age /\ file \notin cache.entry
    /\ ret.calls = 1
    /\ ret.err = NoErr
    /\ ret.val = args.cb.val
    /\ read(cache).val = ret.val

\* C30: if the callback passed to FileCache.entry_or raises while the entry
\* is missing or expired, nothing is written: a missing entry stays missing,
\* an expired entry keeps its content and its modification time, and the
\* error propagates to the caller.
C30_RaisingCallbackWritesNothing ==
    [][(/\ pc' = "entry_or"
        /\ args'.cb.err # NoErr
        /\ \/ cache.entry = Absent
           \/ \E file \in cache.entry : now - file.mtime > cache.max_age) =>
            /\ cache'.entry = cache.entry
            /\ ret'.err = args'.cb.err]_vars

\* The callback raised on an expired entry, which is still there
C30_Witness ==
    /\ pc = "entry_or"
    /\ args.cb.err = "CloudException"
    /\ \E file \in args.entry : now - file.mtime > cache.max_age
    /\ cache.entry = args.entry
    /\ ret.err = "CloudException"

====
